---- MODULE Spec2Model ----
(***************************************************************************)
(* A model of defi-risk-agent:                                             *)
(*   - DefiLlamaClient (src/tools/defillama.py): the 5 minute TTL cache in *)
(*     front of the HTTP API, and fetch_protocol_data;                     *)
(*   - RektScraper (src/tools/rekt_scraper.py): the 24 hour cache of the   *)
(*     incident leaderboard, the name normalizer, the incident correlator  *)
(*     and the severity classifier;                                        *)
(*   - RiskCalculator (src/tools/risk_metrics.py): the five assessors and  *)
(*     the overall score, in IEEE 754 binary64 arithmetic;                 *)
(*   - the workflow (src/graph/workflow.py) and its four agents.           *)
(* Times are seconds.  Text is a sequence of one-character strings.        *)
(***************************************************************************)
EXTENDS Integers, Sequences, FiniteSets, TLC

VARIABLES
    client,         \* which client this run's tasks call: "llama" or "rekt"
    now,            \* datetime.utcnow(), seconds since the start of the run
    ticks,          \* number of clock advances so far (bounds the run)
    llamaCache,     \* DefiLlamaClient._cache: url -> (cached_at, value)
    rektCache,      \* RektScraper._cache: "leaderboard_data" -> list
    rektCacheTime,  \* RektScraper._cache_time: <<>> is None, <<t>> a datetime
    pc,             \* per task: "idle", or "awaiting" the network call
    op,             \* per task: which coroutine it runs, "llama" or "rekt"
    key,            \* per task: the url / cache key of its lookup
    ret,            \* what the lookup that finished last gave its caller
    feed,           \* the leaderboard the incident site serves in this run
    corr,           \* the last call of fetch_protocol_incidents and its result
    nameIn,         \* the argument of _normalize_protocol_name
    token,          \* what _normalize_protocol_name returned for nameIn
    amountIn,       \* the amounts given to _classify_severity, one per record
    severityOut,    \* what _classify_severity returned for each of them
    site,           \* what the two sites answer in this run (fetch_protocol_data)
    pdata,          \* the last call of fetch_protocol_data and how it ended
    factorsIn,      \* the factors given to calculate_overall_risk
    riskScore,      \* how calculate_overall_risk ended for factorsIn
    sumImpl,        \* which built-in sum() the interpreter of this run has
    scoreIn,        \* the scores given to RiskScore.from_score
    scoreOut,       \* how RiskScore.from_score ended for each of them
    protocolIn,     \* the ProtocolData given to the assessors
    factorOut,      \* how assess_incident_risk ended for protocolIn
    assessment,     \* how assess_protocol ended for protocolIn
    world,          \* what fetch_protocol gives for each name in this run
    state,          \* the WorkflowState the graph carries from node to node
    node,           \* the node the graph runs next, END, or the exception that left it
    executed        \* the agents whose run() has been called, in their order

cacheVars == <<client, now, ticks, llamaCache, rektCache, rektCacheTime, pc, op, key, ret>>
scraperVars == <<feed, corr, nameIn, token, amountIn, severityOut>>
protoVars == <<site, pdata>>
riskVars == <<factorsIn, riskScore, sumImpl, scoreIn, scoreOut, protocolIn, factorOut,
              assessment>>
flowVars == <<world, state, node, executed>>
vars == <<cacheVars, scraperVars, protoVars, riskVars, flowVars>>

-----------------------------------------------------------------------------
(* Bounds of the model *)

MaxTasks == 2
MaxTicks == 3
MaxNameLen == 3
MaxFeed == 2

(* Program constants *)

cache_ttl == 300
CACHE_TTL == 86400
TIMEOUT == 30

Tasks == 1..MaxTasks

\* The two clients share no state: a run exercises one of them.  Its clock
\* moves in steps of half that client's TTL, so that the ages 0, TTL/2 and
\* exactly TTL all occur.
Clients == {"llama", "rekt"}

Ttl(c) == IF c = "llama" THEN cache_ttl ELSE CACHE_TTL

ClockStep(c) == Ttl(c) \div 2

-----------------------------------------------------------------------------
(* Upstream of DefiLlamaClient *)

\* url = base_url + endpoint; base_url is one constant prefix, so the
\* endpoint stands for the url.
Endpoints == {"/protocols", "/protocol/aave"}

Url(endpoint) == endpoint

\* A JSON body is a token here; JSON null parses to Python's None.
None == "None"
JsonBodies == {"d1", "d2", "null"}

\* The bodies with a content the code reads: the list of /protocols, the
\* detail document of /protocol/{slug}, and a detail document with no "name".
DocBodies == {"protocols", "detail", "detail_noname"}

\* What client.get(url) ends in: a response with a status (and a body), or a
\* transport failure (httpx.RequestError; a timeout is one of them).
LlamaResponses ==
    [kind : {"response"}, status : {200}, body : JsonBodies \cup {"<html>"}]
      \cup [kind : {"response"}, status : {404, 500}, body : {""}]
      \cup [kind : {"request_error", "timeout"}, status : {0}, body : {""}]

\* response.json(): the parsed value, or "JSONDecodeError" for a body that is
\* not JSON.
ResponseJson(body) ==
    CASE body = "null" -> None
      [] body \in JsonBodies \cup DocBodies -> body
      [] OTHER -> "JSONDecodeError"

-----------------------------------------------------------------------------
(* DefiLlamaClient._get_cached / _set_cache *)

FreshInclusive(cached_at, t, ttl) == t - cached_at <= ttl

\* The expiry test of both caches: age < TTL.
Fresh(cached_at, t, ttl) == t - cached_at < ttl

\* The value _get_cached returns (None when absent or expired).
get_cached(cache, k, t) ==
    IF k \in DOMAIN cache /\ Fresh(cache[k].cached_at, t, cache_ttl)
    THEN cache[k].value
    ELSE None

\* The store _get_cached leaves behind: an expired entry is deleted.
get_cached_store(cache, k, t) ==
    IF k \in DOMAIN cache /\ ~Fresh(cache[k].cached_at, t, cache_ttl)
    THEN [u \in DOMAIN cache \ {k} |-> cache[u]]
    ELSE cache

set_cache(cache, k, value, t) ==
    [u \in DOMAIN cache \cup {k} |->
        IF u = k THEN [cached_at |-> t, value |-> value] ELSE cache[u]]

-----------------------------------------------------------------------------
(* What a finished lookup gave its caller.  kind: "none" before any lookup,  *)
(* "value" for a return, "raise" for an exception.  src: "cache" or "net".   *)
(* upstream classifies the network call the lookup made ("" when none).      *)

NoRet == [kind |-> "none", src |-> "", key |-> "", value |-> "", list |-> <<>>,
          cached_at |-> 0, at |-> 0, upstream |-> "", exc |-> "", task |-> 0]

Returned(src, k, v, l, c, t, up) ==
    [kind |-> "value", src |-> src, key |-> k, value |-> v, list |-> l,
     cached_at |-> c, at |-> t, upstream |-> up, exc |-> "", task |-> 0]

Raised(k, t, up, e) ==
    [kind |-> "raise", src |-> "net", key |-> k, value |-> "", list |-> <<>>,
     cached_at |-> 0, at |-> t, upstream |-> up, exc |-> e, task |-> 0]

-----------------------------------------------------------------------------
(* Text: a str is a sequence of one-character strings.  A key that a feed    *)
(* record does not carry is Absent (dict.get then gives its default).        *)

Absent == <<"<absent>">>

Get(field, default) == IF field = Absent THEN default ELSE field

T_cream_finance == <<"c","r","e","a","m","-","f","i","n","a","n","c","e">>
T_Cream_Finance == <<"C","r","e","a","m"," ","F","i","n","a","n","c","e">>
T_cream == <<"c","r","e","a","m">>
T_lending == <<"l","e","n","d","i","n","g">>
T_poly_network == <<"p","o","l","y","-","n","e","t","w","o","r","k">>
T_Poly_Network == <<"P","o","l","y"," ","N","e","t","w","o","r","k">>
T_poly == <<"p","o","l","y">>
T_bridge == <<"b","r","i","d","g","e">>
T_badger_dao == <<"b","a","d","g","e","r","-","d","a","o">>
T_BadgerDAO == <<"B","a","d","g","e","r","D","A","O">>
T_badger == <<"b","a","d","g","e","r">>
T_badgerdao == <<"b","a","d","g","e","r","d","a","o">>
T_dao == <<"d","a","o">>
T_uniswap == <<"u","n","i","s","w","a","p">>
T_Uniswap == <<"U","n","i","s","w","a","p">>

Day == 24 * 3600

\* A date field: an ISO string ("iso", with the instant t it names, in
\* seconds relative to the start of the run, and whether it carries a UTC
\* offset), no date ("none") or a string that is no ISO date ("invalid").
IsoDate(t, aware) == [kind |-> "iso", t |-> t, aware |-> aware]
NoDate == [kind |-> "none", t |-> 0, aware |-> FALSE]
BadDate == [kind |-> "invalid", t |-> 0, aware |-> FALSE]

\* An amount field: a number, or text float() rejects.
Amount(v) == [ok |-> TRUE, v |-> v]
BadAmount == [ok |-> FALSE, v |-> 0]

Item(protocol, slug, tags, amount, date, fixed) ==
    [protocol |-> protocol, slug |-> slug, tags |-> tags, amount |-> amount,
     date |-> date, fixed |-> fixed]

\* The three records of the test fixture mock_leaderboard_html.
CreamItem == Item(T_Cream_Finance, T_cream_finance, <<T_cream, T_lending>>,
                  Amount(130000000), IsoDate(-(400 * Day), TRUE), TRUE)
PolyItem == Item(T_Poly_Network, T_poly_network, <<T_poly, T_bridge>>,
                 Amount(611000000), IsoDate(-(478 * Day), TRUE), TRUE)
BadgerItem == Item(T_BadgerDAO, T_badger_dao, <<T_badger, T_dao>>,
                   Amount(120000000), IsoDate(-(364 * Day), TRUE), TRUE)

FixtureFeed == <<CreamItem, PolyItem, BadgerItem>>

-----------------------------------------------------------------------------
(* Upstream of RektScraper: what client.get(LEADERBOARD_URL) ends in.  A     *)
(* page carries at most one script that mentions the leaderboard (script:    *)
(* "list" when its JSON parses to the list data, "malformed" when json.loads *)
(* rejects it, "none" when there is no such script) and the rows of its      *)
(* HTML table, as the records _parse_leaderboard_table reads from them.      *)

LEADERBOARD_KEY == "leaderboard_data"

Page(script, data, table) ==
    [kind |-> "response", status |-> 200, script |-> script, data |-> data,
     table |-> table]

RektFailures ==
    {[kind |-> "response", status |-> 500, script |-> "none", data |-> <<>>, table |-> <<>>],
     [kind |-> "request_error", status |-> 0, script |-> "none", data |-> <<>>, table |-> <<>>],
     [kind |-> "timeout", status |-> 0, script |-> "none", data |-> <<>>, table |-> <<>>]}

CachePages ==
    {Page("list", FixtureFeed, <<>>),
     Page("none", <<>>, <<CreamItem>>),
     Page("list", <<>>, <<>>),
     Page("malformed", <<>>, <<>>)}

\* Lines 44-65 of fetch_leaderboard_data: the embedded JSON list if there is
\* one and it is not empty, else what the table parser finds.
ParsePage(page) ==
    LET incidents == IF page.script = "list" THEN page.data ELSE <<>>
    IN  IF incidents = <<>> THEN page.table ELSE incidents

\* How the network call of a lookup ended, seen from outside the code.
LlamaUpstream(resp) ==
    CASE resp.kind # "response" -> resp.kind
      [] resp.status # 200 -> "http_error"
      [] ResponseJson(resp.body) = "JSONDecodeError" -> "parse_error"
      [] OTHER -> "ok"

RektUpstream(page) ==
    CASE page.kind # "response" -> page.kind
      [] page.status # 200 -> "http_error"
      [] page.script = "malformed" -> "parse_error"
      [] OTHER -> "ok"

UpstreamFailures == {"http_error", "request_error", "timeout", "parse_error"}

-----------------------------------------------------------------------------
(* RektScraper._normalize_protocol_name *)

\* A name argument that is None.
NoName == <<"<None>">>

UpperCase == <<"A","B","C","D","E","F","G","H","I","J","K","L","M",
               "N","O","P","Q","R","S","T","U","V","W","X","Y","Z">>
LowerCase == <<"a","b","c","d","e","f","g","h","i","j","k","l","m",
               "n","o","p","q","r","s","t","u","v","w","x","y","z">>
Digits == {"0","1","2","3","4","5","6","7","8","9"}

Range(f) == {f[i] : i \in DOMAIN f}

\* The regex classes \s, \d and \w, on the characters of the model.
SpaceChars == {" ", "\t", "\n"}
WordChars == Range(UpperCase) \cup Range(LowerCase) \cup Digits \cup {"_"}

IsSpace(c) == c \in SpaceChars
IsDigit(c) == c \in Digits
IsWord(c) == c \in WordChars

\* str.lower()
LowerOf == [c \in Range(UpperCase) |->
              LowerCase[CHOOSE i \in DOMAIN UpperCase : UpperCase[i] = c]]

LowerChar(c) == IF c \in DOMAIN LowerOf THEN LowerOf[c] ELSE c

lower(s) == [i \in DOMAIN s |-> LowerChar(s[i])]

EndsWith(s, w) ==
    Len(w) <= Len(s) /\ SubSeq(s, Len(s) - Len(w) + 1, Len(s)) = w

\* The length of the longest run of characters of a class that ends s.
RECURSIVE TrailingSpaces(_)
TrailingSpaces(s) ==
    IF s # <<>> /\ IsSpace(s[Len(s)])
    THEN 1 + TrailingSpaces(SubSeq(s, 1, Len(s) - 1))
    ELSE 0

RECURSIVE TrailingDigits(_)
TrailingDigits(s) ==
    IF s # <<>> /\ IsDigit(s[Len(s)])
    THEN 1 + TrailingDigits(SubSeq(s, 1, Len(s) - 1))
    ELSE 0

\* The alternatives finance|protocol|defi|network of the suffix pattern.
SuffixWords ==
    {<<"f","i","n","a","n","c","e">>, <<"p","r","o","t","o","c","o","l">>,
     <<"d","e","f","i">>, <<"n","e","t","w","o","r","k">>}

\* The length of the qualifier (finance|protocol|defi|network|v\d+) that ends
\* s, 0 when none does.  No two alternatives can end the same text after
\* white space, so the order of the alternatives does not matter.
QualifierAt(s) ==
    LET d == TrailingDigits(s)
    IN  IF d > 0
        THEN IF d < Len(s) /\ s[Len(s) - d] = "v" THEN d + 1 ELSE 0
        ELSE IF \E w \in SuffixWords : EndsWith(s, w)
             THEN Len(CHOOSE w \in SuffixWords : EndsWith(s, w))
             ELSE 0

\* re.sub(r'\s+(finance|protocol|defi|network|v\d+)$', '', s).  $ matches at
\* the end of s, and before a newline that ends s.  The leftmost match takes
\* the whole run of white space before the qualifier.
strip_suffix(s) ==
    LET nl == IF s # <<>> /\ s[Len(s)] = "\n" THEN 1 ELSE 0
        body == SubSeq(s, 1, Len(s) - nl)
        q == QualifierAt(body)
        before == SubSeq(body, 1, Len(body) - q)
        sp == TrailingSpaces(before)
    IN  IF q > 0 /\ sp > 0
        THEN SubSeq(before, 1, Len(before) - sp) \o SubSeq(s, Len(s) - nl + 1, Len(s))
        ELSE s

\* re.sub(r'[^\w\s-]', '', s)
KeptChar(c) == IsWord(c) \/ IsSpace(c) \/ c = "-"

strip_special(s) == SelectSeq(s, KeptChar)

RECURSIVE DropSpaces(_)
DropSpaces(s) == IF s # <<>> /\ IsSpace(Head(s)) THEN DropSpaces(Tail(s)) ELSE s

\* A normalizer that leaves white space in the token.
spaces_kept(s) == s

\* re.sub(r'\s+', '-', s)
RECURSIVE spaces_to_hyphen(_)
spaces_to_hyphen(s) ==
    IF s = <<>> THEN <<>>
    ELSE IF IsSpace(Head(s)) THEN <<"-">> \o spaces_to_hyphen(DropSpaces(Tail(s)))
    ELSE <<Head(s)>> \o spaces_to_hyphen(Tail(s))

RECURSIVE DropHyphens(_)
DropHyphens(s) == IF s # <<>> /\ Head(s) = "-" THEN DropHyphens(Tail(s)) ELSE s

\* re.sub(r'-+', '-', s)
RECURSIVE squeeze_hyphens(_)
squeeze_hyphens(s) ==
    IF s = <<>> THEN <<>>
    ELSE IF Head(s) = "-" THEN <<"-">> \o squeeze_hyphens(DropHyphens(Tail(s)))
    ELSE <<Head(s)>> \o squeeze_hyphens(Tail(s))

RECURSIVE TrailingHyphens(_)
TrailingHyphens(s) ==
    IF s # <<>> /\ s[Len(s)] = "-"
    THEN 1 + TrailingHyphens(SubSeq(s, 1, Len(s) - 1))
    ELSE 0

\* s.strip('-')
strip_hyphens(s) ==
    LET t == DropHyphens(s) IN SubSeq(t, 1, Len(t) - TrailingHyphens(t))

normalize_protocol_name(name) ==
    IF name = NoName \/ name = <<>>
    THEN <<>>
    ELSE strip_hyphens(squeeze_hyphens(spaces_to_hyphen(
             strip_special(strip_suffix(lower(name))))))

-----------------------------------------------------------------------------
(* RektScraper._classify_severity *)

CRITICAL_ABOVE == 50000000
HIGH_ABOVE == 10000000
MEDIUM_ABOVE == 1000000

classify_severity_inclusive(amount_usd) ==
    IF amount_usd >= CRITICAL_ABOVE THEN "critical"
    ELSE IF amount_usd >= HIGH_ABOVE THEN "high"
    ELSE IF amount_usd >= MEDIUM_ABOVE THEN "medium"
    ELSE "low"

classify_severity(amount_usd) ==
    IF amount_usd > CRITICAL_ABOVE THEN "critical"
    ELSE IF amount_usd > HIGH_ABOVE THEN "high"
    ELSE IF amount_usd > MEDIUM_ABOVE THEN "medium"
    ELSE "low"

-----------------------------------------------------------------------------
(* RektScraper.fetch_protocol_incidents: the matching of one feed record     *)

\* sub in s, for str
Contains(s, sub) ==
    \E i \in 0..(Len(s) - Len(sub)) : SubSeq(s, i + 1, i + Len(sub)) = sub

\* s.startswith(prefix)
StartsWith(s, prefix) ==
    Len(prefix) <= Len(s) /\ SubSeq(s, 1, Len(prefix)) = prefix

\* s.split('-')[0]
RECURSIVE SplitFirst(_)
SplitFirst(s) ==
    IF s = <<>> \/ Head(s) = "-" THEN <<>> ELSE <<Head(s)>> \o SplitFirst(Tail(s))

\* Line 271: the normalized name, None when protocol_name is None or empty.
normalized_name_of(protocol_name) ==
    IF protocol_name = NoName \/ protocol_name = <<>>
    THEN NoName
    ELSE normalize_protocol_name(protocol_name)

\* Truth value of a str-or-None.
Truthy(text) == text # NoName /\ text # <<>>

\* Lines 276-278: the normalized fields of a feed record.
item_protocol_of(item) == normalize_protocol_name(Get(item.protocol, <<>>))
item_slug_of(item) == normalize_protocol_name(Get(item.slug, <<>>))
item_tags_of(item) ==
    [i \in DOMAIN item.tags |-> normalize_protocol_name(item.tags[i])]

\* Lines 281-285
exact_match(item_slug, item_protocol, normalized_slug, normalized_name) ==
    \/ item_slug = normalized_slug
    \/ item_protocol = normalized_slug
    \/ Truthy(normalized_name) /\ item_protocol = normalized_name

\* Lines 288-300
partial_match(exact, item_slug, item_protocol, normalized_slug) ==
    /\ ~exact
    /\ normalized_slug # <<>>
    /\ LET base_slug == SplitFirst(normalized_slug)
           base_item_slug == SplitFirst(item_slug)
       IN  /\ base_slug # <<>>
           /\ base_item_slug # <<>>
           /\ \/ Contains(item_slug, base_slug)
              \/ StartsWith(item_slug, base_slug)
              \/ Contains(item_protocol, base_slug)
              \/ StartsWith(item_protocol, base_slug)

\* Lines 303-306
tag_match(item_tags, normalized_slug, normalized_name) ==
    \/ normalized_slug \in Range(item_tags)
    \/ Truthy(normalized_name) /\ normalized_name \in Range(item_tags)

\* Lines 276-308: whether the loop appends an incident for the record.
Matches(item, normalized_slug, normalized_name) ==
    LET item_protocol == item_protocol_of(item)
        item_slug == item_slug_of(item)
        exact == exact_match(item_slug, item_protocol, normalized_slug, normalized_name)
    IN  \/ exact
        \/ partial_match(exact, item_slug, item_protocol, normalized_slug)
        \/ tag_match(item_tags_of(item), normalized_slug, normalized_name)

-----------------------------------------------------------------------------
(* RektScraper.fetch_protocol_incidents: the incidents built and their order *)

\* The ExploitIncident built from the record at position idx of the feed
\* (idx is kept to tell which record an incident came from).
ExploitIncident(idx, protocol_name, date, amount_lost_usd, severity, tags, fixed, slug) ==
    [idx |-> idx, protocol_name |-> protocol_name, date |-> date,
     amount_lost_usd |-> amount_lost_usd, severity |-> severity, tags |-> tags,
     fixed |-> fixed, slug |-> slug]

\* Lines 310-312 raise for this record: float() of a text that is no number,
\* datetime.fromisoformat() of a text that is no ISO date.
ItemRaises(item) == ~item.amount.ok \/ item.date.kind = "invalid"

\* Line 312: the parsed date; utcnow(), which carries no offset, when the
\* record has none.
incident_date(item, t) ==
    IF item.date.kind = "none"
    THEN [t |-> t, aware |-> FALSE]
    ELSE [t |-> item.date.t, aware |-> item.date.aware]

\* Lines 314-326
incident_of(idx, item, slug, protocol_name, t) ==
    ExploitIncident(idx,
                    Get(item.protocol, IF Truthy(protocol_name) THEN protocol_name ELSE slug),
                    incident_date(item, t),
                    item.amount.v,
                    classify_severity(item.amount.v),
                    item.tags, item.fixed, item.slug)

\* Lines 273-327: the positions of the records the loop appends, in feed order.
MatchedIdx(data, slug, protocol_name) ==
    LET normalized_slug == normalize_protocol_name(slug)
        normalized_name == normalized_name_of(protocol_name)
        hit == [i \in DOMAIN data |-> Matches(data[i], normalized_slug, normalized_name)]
    IN  SelectSeq([i \in DOMAIN data |-> i], LAMBDA i : hit[i])

\* The list left as the loop built it, in feed order.
sort_feed_order(incidents) == incidents

\* x goes before the first incident that is not newer than x: the sort is
\* stable, and reverse=True keeps the feed order of equal dates.
RECURSIVE InsertNewestFirst(_, _)
InsertNewestFirst(x, sorted) ==
    IF sorted = <<>> THEN <<x>>
    ELSE IF Head(sorted).date.t <= x.date.t THEN <<x>> \o sorted
    ELSE <<Head(sorted)>> \o InsertNewestFirst(x, Tail(sorted))

\* Line 330: incidents.sort(key=lambda x: x.date, reverse=True)
RECURSIVE sort_newest_first(_)
sort_newest_first(incidents) ==
    IF incidents = <<>> THEN <<>>
    ELSE InsertNewestFirst(Head(incidents), sort_newest_first(Tail(incidents)))

\* Sorting compares a datetime with an offset to one without: TypeError.
SortRaises(incidents) ==
    \E i, j \in DOMAIN incidents : incidents[i].date.aware # incidents[j].date.aware

\* Lines 266-332, given the list fetch_leaderboard_data returned.
correlate(slug, protocol_name, data, t) ==
    LET matched == MatchedIdx(data, slug, protocol_name)
        incidents == [n \in DOMAIN matched |->
                        incident_of(matched[n], data[matched[n]], slug, protocol_name, t)]
        raises == \E n \in DOMAIN matched : ItemRaises(data[matched[n]])
        result == [called |-> TRUE, slug |-> slug, name |-> protocol_name,
                   data |-> data, kind |-> "value", incidents |-> <<>>, exc |-> ""]
    IN  IF data = <<>> THEN result
        ELSE IF raises
        THEN [result EXCEPT !.kind = "raise", !.exc = "ValueError"]
        ELSE IF SortRaises(incidents)
        THEN [result EXCEPT !.kind = "raise", !.exc = "TypeError"]
        ELSE [result EXCEPT !.incidents = sort_newest_first(incidents)]

-----------------------------------------------------------------------------
(* DefiLlamaClient._request, in its two atomic pieces: up to the await on    *)
(* client.get(url), and from the response on.                                *)

Start(t, o, k) ==
    /\ pc' = [pc EXCEPT ![t] = "awaiting"]
    /\ op' = [op EXCEPT ![t] = o]
    /\ key' = [key EXCEPT ![t] = k]
    /\ UNCHANGED ret

Finish(t, r) ==
    /\ pc' = [pc EXCEPT ![t] = "idle"]
    /\ op' = [op EXCEPT ![t] = ""]
    /\ key' = [key EXCEPT ![t] = ""]
    /\ ret' = [r EXCEPT !.task = t]

\* What _request does with the value _get_cached gave it.
CacheHit(cached) == cached # None

request_begin(t, endpoint) ==
    LET url == Url(endpoint)
        cached == get_cached(llamaCache, url, now)
    IN  /\ client = "llama"
        /\ pc[t] = "idle"
        /\ llamaCache' = get_cached_store(llamaCache, url, now)
        /\ IF CacheHit(cached)
           THEN Finish(t, Returned("cache", url, cached, <<>>,
                                   llamaCache[url].cached_at, now, ""))
           ELSE Start(t, "llama", url)
        /\ UNCHANGED <<client, now, ticks, rektCache, rektCacheTime, scraperVars, protoVars, flowVars, riskVars>>

\* The cache after the response: only a parsed 200 response is stored.
request_store(cache, url, resp, t) ==
    IF LlamaUpstream(resp) = "ok"
    THEN set_cache(cache, url, ResponseJson(resp.body), t)
    ELSE cache

request_result(url, resp, t) ==
    CASE LlamaUpstream(resp) = "ok" ->
            Returned("net", url, ResponseJson(resp.body), <<>>, t, t, "ok")
      [] LlamaUpstream(resp) = "http_error" /\ resp.status = 404 ->
            Raised(url, t, "http_error", "DefiLlamaError: Protocol not found")
      [] LlamaUpstream(resp) = "http_error" /\ resp.status # 404 ->
            Raised(url, t, "http_error", "DefiLlamaError: API error")
      [] LlamaUpstream(resp) \in {"request_error", "timeout"} ->
            Raised(url, t, LlamaUpstream(resp), "DefiLlamaError: Request failed")
      [] OTHER ->
            Raised(url, t, "parse_error", "JSONDecodeError")

request_end(t, resp) ==
    /\ pc[t] = "awaiting"
    /\ op[t] = "llama"
    /\ llamaCache' = request_store(llamaCache, key[t], resp, now)
    /\ Finish(t, request_result(key[t], resp, now))
    /\ UNCHANGED <<client, now, ticks, rektCache, rektCacheTime, scraperVars, protoVars, flowVars, riskVars>>

-----------------------------------------------------------------------------
(* RektScraper.fetch_leaderboard_data, in its two atomic pieces.             *)

\* Line 33: the cache check.
RektFresh(cache_time, t) ==
    cache_time # <<>> /\ Fresh(cache_time[1], t, CACHE_TTL)

\* Line 34: self._cache.get("leaderboard_data", []).
RektCached(cache) ==
    IF LEADERBOARD_KEY \in DOMAIN cache THEN cache[LEADERBOARD_KEY] ELSE <<>>

fetch_leaderboard_begin(t) ==
    /\ client = "rekt"
    /\ pc[t] = "idle"
    /\ IF RektFresh(rektCacheTime, now)
       THEN Finish(t, Returned("cache", LEADERBOARD_KEY, "", RektCached(rektCache),
                               rektCacheTime[1], now, ""))
       ELSE Start(t, "rekt", LEADERBOARD_KEY)
    /\ UNCHANGED <<client, now, ticks, llamaCache, rektCache, rektCacheTime, scraperVars, protoVars, flowVars, riskVars>>

\* Whether the try block of lines 36-71 runs to its end (no exception).
RektParsed(page) == page.kind = "response" /\ page.status = 200

fetch_leaderboard_end(t, page) ==
    /\ pc[t] = "awaiting"
    /\ op[t] = "rekt"
    /\ IF RektParsed(page)
       THEN /\ rektCache' = [k \in {LEADERBOARD_KEY} |-> ParsePage(page)]
            /\ rektCacheTime' = <<now>>
            /\ Finish(t, Returned("net", LEADERBOARD_KEY, "", ParsePage(page),
                                  now, now, RektUpstream(page)))
       ELSE /\ UNCHANGED <<rektCache, rektCacheTime>>
            /\ Finish(t, Returned("net", LEADERBOARD_KEY, "", <<>>,
                                  now, now, RektUpstream(page)))
    /\ UNCHANGED <<client, now, ticks, llamaCache, scraperVars, protoVars, flowVars, riskVars>>

-----------------------------------------------------------------------------
(* The clock.  A call in flight ends (a response, an error or the timeout)   *)
(* before the clock moves: the step is longer than TIMEOUT.                  *)

Tick ==
    /\ ticks < MaxTicks
    /\ ClockStep(client) > TIMEOUT
    /\ \A t \in Tasks : pc[t] = "idle"
    /\ now' = now + ClockStep(client)
    /\ ticks' = ticks + 1
    /\ UNCHANGED <<client, llamaCache, rektCache, rektCacheTime, pc, op, key, ret, scraperVars, protoVars, flowVars, riskVars>>

EmptyDict == [k \in {} |-> 0]

\* The clients as their constructors leave them, no task started.
CacheInit ==
    /\ now = 0
    /\ ticks = 0
    /\ llamaCache = EmptyDict
    /\ rektCache = EmptyDict
    /\ rektCacheTime = <<>>
    /\ pc = [t \in Tasks |-> "idle"]
    /\ op = [t \in Tasks |-> ""]
    /\ key = [t \in Tasks |-> ""]
    /\ ret = NoRet

\* No call of the correlator or of the normalizer yet.
NoCorr == [called |-> FALSE, slug |-> <<>>, name |-> <<>>, data |-> <<>>,
           kind |-> "none", incidents |-> <<>>, exc |-> ""]

NotRun == <<"<not run>">>

ScraperIdle ==
    /\ feed = <<>>
    /\ corr = NoCorr
    /\ nameIn = NoName
    /\ token = NotRun
    /\ amountIn = <<>>
    /\ severityOut = <<>>

-----------------------------------------------------------------------------
(* Python float arithmetic.  A float is an IEEE 754 binary64 number: a sign
   and a significand of 53 bits times a power of two; every operation gives
   the exact result rounded to the nearest float, ties to the even
   significand.  A significand does not fit the integers of the checker, so
   it is kept as a sequence of 15-bit limbs, least significant limb first,
   without leading zero limbs (the empty sequence is 0).  The values of the
   risk scores are far from the overflow and underflow thresholds, and the
   exponent is left unbounded. *)

LimbBits == 15

LimbBase == 2 ^ LimbBits

MantBits == 53

Limb(a, i) == IF i \in DOMAIN a THEN a[i] ELSE 0

BigTrim(a) ==
    LET nz == {i \in DOMAIN a : a[i] # 0}
    IN  IF nz = {} THEN <<>>
        ELSE SubSeq(a, 1, CHOOSE i \in nz : \A j \in nz : j <= i)

\* The natural number n < 2^30 as limbs.
BigOfInt(n) ==
    BigTrim(<<n % LimbBase, n \div LimbBase>>)

RECURSIVE BigAddFrom(_, _, _, _)
BigAddFrom(a, b, i, carry) ==
    IF i > Len(a) /\ i > Len(b)
    THEN IF carry = 0 THEN <<>> ELSE <<carry>>
    ELSE <<(Limb(a, i) + Limb(b, i) + carry) % LimbBase>>
         \o BigAddFrom(a, b, i + 1, (Limb(a, i) + Limb(b, i) + carry) \div LimbBase)

BigAdd(a, b) == BigAddFrom(a, b, 1, 0)

\* a - b for a >= b.
RECURSIVE BigSubFrom(_, _, _, _)
BigSubFrom(a, b, i, borrow) ==
    IF i > Len(a) THEN <<>>
    ELSE <<(a[i] - Limb(b, i) - borrow + LimbBase) % LimbBase>>
         \o BigSubFrom(a, b, i + 1,
                       IF a[i] - Limb(b, i) - borrow < 0 THEN 1 ELSE 0)

BigSub(a, b) == BigTrim(BigSubFrom(a, b, 1, 0))

\* -1, 0 or 1 as a < b, a = b or a > b.
BigCmp(a, b) ==
    IF Len(a) # Len(b) THEN (IF Len(a) < Len(b) THEN -1 ELSE 1)
    ELSE LET d == {i \in DOMAIN a : a[i] # b[i]}
         IN  IF d = {} THEN 0
             ELSE LET top == CHOOSE i \in d : \A j \in d : j <= i
                  IN  IF a[top] < b[top] THEN -1 ELSE 1

\* a * k for a limb k.
RECURSIVE BigMulLimbFrom(_, _, _, _)
BigMulLimbFrom(a, k, i, carry) ==
    IF i > Len(a)
    THEN IF carry = 0 THEN <<>> ELSE <<carry>>
    ELSE <<(a[i] * k + carry) % LimbBase>>
         \o BigMulLimbFrom(a, k, i + 1, (a[i] * k + carry) \div LimbBase)

BigMulLimb(a, k) == BigTrim(BigMulLimbFrom(a, k, 1, 0))

Zeros(n) == [i \in 1..n |-> 0]

\* a * 2^s and floor(a / 2^s).
BigShl(a, s) ==
    IF a = <<>> THEN <<>>
    ELSE Zeros(s \div LimbBits) \o BigMulLimb(a, 2 ^ (s % LimbBits))

BigShr(a, s) ==
    LET q == s \div LimbBits
        r == s % LimbBits
    IN  IF q >= Len(a) THEN <<>>
        ELSE BigTrim([i \in 1..(Len(a) - q) |->
                        (a[i + q] \div (2 ^ r))
                        + (Limb(a, i + q + 1) % (2 ^ r)) * (2 ^ (LimbBits - r))])

\* a mod 2^s.
BigLow(a, s) == BigSub(a, BigShl(BigShr(a, s), s))

\* a * 2^15.
BigShlLimb(a) == IF a = <<>> THEN <<>> ELSE <<0>> \o a

RECURSIVE BigMulFrom(_, _, _)
BigMulFrom(a, b, j) ==
    IF j > Len(b) THEN <<>>
    ELSE BigAdd(BigMulLimb(a, b[j]), BigShlLimb(BigMulFrom(a, b, j + 1)))

BigMul(a, b) == BigMulFrom(a, b, 1)

BitLen(a) ==
    IF a = <<>> THEN 0
    ELSE LimbBits * (Len(a) - 1)
         + (CHOOSE k \in 1..LimbBits :
               2 ^ (k - 1) <= a[Len(a)] /\ a[Len(a)] < 2 ^ k)

BigOdd(a) == a # <<>> /\ a[1] % 2 = 1

\* The float of sign neg and value m * 2^e, for a significand m of 53 bits.
Float(neg, m, e) == [neg |-> neg, m |-> m, e |-> e]

FZero == Float(FALSE, <<>>, 0)

\* The 54-bit outcome of a round-up is 2^53: one bit less, one exponent more.
RoundCarry(neg, q, e) ==
    IF BitLen(q) > MantBits THEN Float(neg, BigShr(q, 1), e + 1)
    ELSE Float(neg, q, e)

\* n has more than 53 bits: drop the s low bits, to nearest, ties to even.
RoundDrop(neg, n, e, s) ==
    LET q    == BigShr(n, s)
        half == BigCmp(BigLow(n, s), BigShl(<<1>>, s - 1))
    IN  IF half > 0 \/ (half = 0 /\ BigOdd(q))
        THEN RoundCarry(neg, BigAdd(q, <<1>>), e + s)
        ELSE Float(neg, q, e + s)

\* The float nearest to n * 2^e.
Round(neg, n, e) ==
    IF n = <<>> THEN FZero
    ELSE IF BitLen(n) <= MantBits
         THEN Float(neg, BigShl(n, MantBits - BitLen(n)), e - (MantBits - BitLen(n)))
         ELSE RoundDrop(neg, n, e, BitLen(n) - MantBits)

\* float(n) of a Python int n.
FInt(n) == Round(n < 0, BigOfInt(IF n < 0 THEN -n ELSE n), 0)

FNeg(a) == IF a.m = <<>> THEN a ELSE Float(~a.neg, a.m, a.e)

FAbs(a) == Float(FALSE, a.m, a.e)

FMul(a, b) ==
    IF a.m = <<>> \/ b.m = <<>> THEN FZero
    ELSE Round(a.neg # b.neg, BigMul(a.m, b.m), a.e + b.e)

\* The magnitudes x and y at the common exponent e.
AddAligned(aneg, x, bneg, y, e) ==
    IF aneg = bneg THEN Round(aneg, BigAdd(x, y), e)
    ELSE IF BigCmp(x, y) = 0 THEN FZero
    ELSE IF BigCmp(x, y) > 0 THEN Round(aneg, BigSub(x, y), e)
    ELSE Round(bneg, BigSub(y, x), e)

FAdd(a, b) ==
    IF a.m = <<>> THEN b
    ELSE IF b.m = <<>> THEN a
    ELSE IF a.e >= b.e
         THEN AddAligned(a.neg, BigShl(a.m, a.e - b.e), b.neg, b.m, b.e)
         ELSE AddAligned(a.neg, a.m, b.neg, BigShl(b.m, b.e - a.e), a.e)

FSub(a, b) == FAdd(a, FNeg(b))

\* n more binary digits of the quotient by d: s.q holds the digits so far
\* and s.r < 2 d the running remainder.
RECURSIVE DivBits(_, _, _)
DivBits(s, d, n) ==
    IF n = 0 THEN s
    ELSE IF BigCmp(s.r, d) >= 0
         THEN DivBits([r |-> BigShl(BigSub(s.r, d), 1),
                       q |-> BigAdd(BigShl(s.q, 1), <<1>>)], d, n - 1)
         ELSE DivBits([r |-> BigShl(s.r, 1), q |-> BigShl(s.q, 1)], d, n - 1)

\* The quotient to 56 binary places, with one more bit that keeps a remainder
\* apart from a tie.
DivRound(neg, s, e) ==
    Round(neg, BigAdd(BigShl(s.q, 1), IF s.r # <<>> THEN <<1>> ELSE <<>>), e)

FDiv(a, b) ==
    IF a.m = <<>> THEN FZero
    ELSE DivRound(a.neg # b.neg,
                  DivBits([r |-> a.m, q |-> <<>>], b.m, MantBits + 4),
                  a.e - b.e - (MantBits + 4))

\* a <= b and a < b.
FLe(a, b) == ~FSub(b, a).neg

FLt(a, b) == a # b /\ FLe(a, b)

\* The float a decimal literal such as 0.15 denotes: the float nearest to
\* num / den.
FDec(num, den) == FDiv(FInt(num), FInt(den))

-----------------------------------------------------------------------------
\* No call of fetch_protocol_data yet.
NoData == [called |-> FALSE, query |-> <<>>, kind |-> "none", exc |-> "",
           stage |-> "", cause |-> "", name |-> <<>>, slug |-> <<>>, incidents |-> <<>>,
           feed |-> "", board |-> "", data |-> <<>>, corr |-> "", error |-> <<>>,
           analyze |-> ""]

NoSite == [list |-> "", detail |-> "", page |-> ""]

NoScore == [kind |-> "none", overall |-> FZero, level |-> "", factors |-> <<>>, exc |-> ""]

\* No protocol given to the assessors, and no factor assessed.
NoProtocol == [incidents |-> <<>>, given |-> FALSE]

NoFactor == [kind |-> "none", exc |-> "", name |-> "", score |-> FZero, weight |-> FZero]

NoAssessment == [kind |-> "none", exc |-> "", factors |-> <<>>, score |-> NoScore]

\* No report.
NoReport == [type |-> "None", protocols |-> <<>>, assessments |-> <<>>]

\* No workflow run.
NoState ==
    [query |-> <<>>, protocol_names |-> <<>>, protocol_data |-> EmptyDict,
     risk_assessments |-> EmptyDict, report |-> NoReport, current_agent |-> "",
     next_agent |-> "", error |-> None]

FlowIdle ==
    /\ world = EmptyDict
    /\ state = NoState
    /\ node = "idle"
    /\ executed = <<>>

\* No call of the risk calculator yet.
RiskIdle ==
    /\ factorsIn = <<>>
    /\ riskScore = NoScore
    /\ sumImpl = "left_to_right"
    /\ scoreIn = <<>>
    /\ scoreOut = <<>>
    /\ protocolIn = NoProtocol
    /\ factorOut = NoFactor
    /\ assessment = NoAssessment

AssessIdle ==
    /\ site = NoSite
    /\ pdata = NoData
    /\ FlowIdle
    /\ RiskIdle

Init ==
    /\ client \in Clients
    /\ CacheInit
    /\ ScraperIdle
    /\ AssessIdle

Next ==
    \/ \E t \in Tasks, e \in Endpoints : request_begin(t, e)
    \/ \E t \in Tasks, resp \in LlamaResponses : request_end(t, resp)
    \/ \E t \in Tasks : fetch_leaderboard_begin(t)
    \/ \E t \in Tasks, page \in CachePages \cup RektFailures :
            fetch_leaderboard_end(t, page)
    \/ Tick

Spec == Init /\ [][Next]_vars

-----------------------------------------------------------------------------
(* The normalizer on its own: a name is drawn, _normalize_protocol_name is   *)
(* applied to it.                                                            *)

NameAlphabet == {"a", "V", "1", " ", "-", "_", "."}

Texts(n) == UNION {[1..k -> NameAlphabet] : k \in 0..n}

T_Compound_V3 == <<"C","o","m","p","o","u","n","d"," ","V","3">>
T_Aave_Protocol == <<"A","a","v","e"," ","P","r","o","t","o","c","o","l">>
\* A name that ends with two qualifiers.
T_a_V1_V1 == <<"a"," ","V","1"," ","V","1">>

NameInputs ==
    Texts(MaxNameLen) \cup
    {NoName, T_Cream_Finance, T_cream_finance, T_BadgerDAO, T_Poly_Network,
     T_poly_network, T_badger_dao, T_Compound_V3, T_Aave_Protocol, T_a_V1_V1}

normalize_call ==
    /\ token = NotRun
    /\ token' = normalize_protocol_name(nameIn)
    /\ UNCHANGED <<cacheVars, feed, corr, nameIn, amountIn, severityOut,
                   protoVars, flowVars, riskVars>>

InitNormalize ==
    /\ client = "rekt"
    /\ CacheInit
    /\ feed = <<>>
    /\ corr = NoCorr
    /\ nameIn \in NameInputs
    /\ token = NotRun
    /\ amountIn = <<>>
    /\ severityOut = <<>>
    /\ AssessIdle

NextNormalize == normalize_call

SpecNormalize == InitNormalize /\ [][NextNormalize]_vars

-----------------------------------------------------------------------------
(* Steps of one task, for the properties below. *)

\* Task t runs the cache check of a lookup: it goes on to await the network
\* call, or it returns the cached value at once.
BeginStep(t) ==
    /\ pc[t] = "idle"
    /\ \/ pc'[t] = "awaiting"
       \/ ret' # ret /\ ret'.task = t

\* Task t gets the answer of its network call.
EndStep(t) == pc[t] = "awaiting" /\ pc'[t] = "idle"

\* The key a BeginStep of t looks up.
BeginKey(t) == IF pc'[t] = "awaiting" THEN key'[t] ELSE ret'.key

InFlight(c, k) == {t \in Tasks : pc[t] = "awaiting" /\ op[t] = c /\ key[t] = k}

Keys(c) == IF c = "llama" THEN {Url(e) : e \in Endpoints} ELSE {LEADERBOARD_KEY}

\* The created-at time of the entry a cache holds for k, as a set (empty when
\* it holds none).
CreatedAtIn(c, k, lcache, rtime) ==
    IF c = "llama"
    THEN {lcache[u].cached_at : u \in DOMAIN lcache \cap {k}}
    ELSE {rtime[i] : i \in DOMAIN rtime}

CreatedAt(c, k) == CreatedAtIn(c, k, llamaCache, rektCacheTime)

\* No lookup is in flight: the next lookup is a sequential one.
Sequential == \A u \in Tasks : pc[u] = "idle"

-----------------------------------------------------------------------------
-----------------------------------------------------------------------------
(* The correlator: the site serves one leaderboard in a run; callers ask for *)
(* the incidents of an entity, one call after the other.                     *)

T_cream_rekt_2 == <<"c","r","e","a","m","-","f","i","n","a","n","c","e","-","r","e","k","t","-","2">>
T_Cream_Rekt == <<"C","r","e","a","m"," ","R","e","k","t">>
T_creamy == <<"c","r","e","a","m","y">>
T_foo == <<"f","o","o">>
T_Foo == <<"F","o","o">>
T_Bar == <<"B","a","r">>
T_qq == <<"q","q">>

\* A second Cream record, newer and smaller; a Cream record with no date; one
\* whose amount is no number; one whose date is no ISO date; a record whose
\* slug alone is the normalized query name "foo"; a record with no slug.
Cream2Item == Item(T_Cream_Finance, T_cream_rekt_2, <<T_cream>>,
                   Amount(18800000), IsoDate(-(200 * Day), TRUE), FALSE)
CreamNoDateItem == Item(T_Cream_Finance, T_cream_finance, <<>>,
                        Amount(HIGH_ABOVE), NoDate, FALSE)
CreamBadAmountItem == Item(T_Cream_Finance, T_cream_finance, <<>>,
                           BadAmount, IsoDate(-(300 * Day), TRUE), FALSE)
CreamBadDateItem == Item(T_Cream_Finance, T_cream_finance, <<>>,
                         Amount(MEDIUM_ABOVE), BadDate, FALSE)
FooSlugItem == Item(T_Bar, T_foo, <<>>,
                    Amount(CRITICAL_ABOVE), IsoDate(-(10 * Day), TRUE), FALSE)
CreamRektNoSlugItem == Item(T_Cream_Rekt, Absent, <<>>,
                            Amount(MEDIUM_ABOVE + 1), IsoDate(-(200 * Day), TRUE), TRUE)

ItemPool ==
    {CreamItem, PolyItem, BadgerItem, Cream2Item, CreamNoDateItem,
     CreamBadAmountItem, CreamBadDateItem, FooSlugItem, CreamRektNoSlugItem}

\* The feeds: every list of up to MaxFeed different records of the pool, and
\* the list of the test fixture.
Feeds ==
    {FixtureFeed} \cup
    UNION {{f \in [1..n -> ItemPool] : \A i, j \in 1..n : f[i] = f[j] => i = j} :
           n \in 0..MaxFeed}

\* The queries (slug, protocol_name).
Queries ==
    {<<T_cream_finance, T_Cream_Finance>>, <<T_uniswap, T_Uniswap>>,
     <<T_badger, T_BadgerDAO>>, <<T_badger, NoName>>, <<T_lending, NoName>>,
     <<T_qq, T_Foo>>, <<T_creamy, NoName>>, <<T_cream, T_Cream_Finance>>}

\* What the site answers: the page with the leaderboard, or a failure.
FeedPages ==
    {Page("list", feed, <<>>)} \cup {p \in RektFailures : p.kind = "response"}

\* fetch_protocol_incidents(slug, protocol_name), with the call of
\* fetch_leaderboard_data it makes (both pieces, no other task in between).
fetch_protocol_incidents(slug, protocol_name, page) ==
    LET hit == RektFresh(rektCacheTime, now)
        stored == ~hit /\ RektParsed(page)
        leaderboard_data ==
            IF hit THEN RektCached(rektCache)
            ELSE IF stored THEN ParsePage(page)
            ELSE <<>>
    IN  /\ client = "rekt"
        /\ \A t \in Tasks : pc[t] = "idle"
        /\ rektCache' = IF stored
                         THEN [k \in {LEADERBOARD_KEY} |-> ParsePage(page)]
                         ELSE rektCache
        /\ rektCacheTime' = IF stored THEN <<now>> ELSE rektCacheTime
        /\ corr' = correlate(slug, protocol_name, leaderboard_data, now)
        /\ UNCHANGED <<client, now, ticks, llamaCache, pc, op, key, ret,
                       feed, nameIn, token, amountIn, severityOut,
                       protoVars, flowVars, riskVars>>

InitIncidents ==
    /\ client = "rekt"
    /\ CacheInit
    /\ feed \in Feeds
    /\ corr = NoCorr
    /\ nameIn = NoName
    /\ token = NotRun
    /\ amountIn = <<>>
    /\ severityOut = <<>>
    /\ AssessIdle

NextIncidents ==
    \E q \in Queries, page \in FeedPages :
        fetch_protocol_incidents(q[1], q[2], page)

SpecIncidents == InitIncidents /\ [][NextIncidents]_vars

-----------------------------------------------------------------------------
(* The severity classifier on its own: the amounts of two records are drawn  *)
(* and each is classified, as the loop of fetch_protocol_incidents does.     *)

MaxDelta == 6

AmountInputs ==
    {th + d : th \in {0, MEDIUM_ABOVE, HIGH_ABOVE, CRITICAL_ABOVE},
              d \in (-MaxDelta)..MaxDelta}
      \cup {500000, 5000000, 20000000, 30000000, 60000000, 100000000}

classify_call ==
    /\ amountIn # <<>>
    /\ severityOut = <<>>
    /\ severityOut' = [i \in DOMAIN amountIn |-> classify_severity(amountIn[i])]
    /\ UNCHANGED <<cacheVars, feed, corr, nameIn, token, amountIn,
                   protoVars, flowVars, riskVars>>

InitSeverity ==
    /\ client = "rekt"
    /\ CacheInit
    /\ feed = <<>>
    /\ corr = NoCorr
    /\ nameIn = NoName
    /\ token = NotRun
    /\ amountIn \in AmountInputs \X AmountInputs
    /\ severityOut = <<>>
    /\ AssessIdle

NextSeverity == classify_call

SpecSeverity == InitSeverity /\ [][NextSeverity]_vars

-----------------------------------------------------------------------------
\* C1: however concurrent lookups of one key interleave, the source is called
\* at most once for that key within one freshness window.  The clock does not
\* move while a call is in flight, so two calls in flight for one key are two
\* calls within one window: the claim requires that no two lookups of one key
\* are suspended at their network call together.
C1_OneCallPerKeyAndWindow ==
    \A c \in Clients : \A k \in Keys(c) : Cardinality(InFlight(c, k)) <= 1

\* C2: a lookup returns a stored value only if now - created_at < TTL, and it
\* is then the stored value; for an entry aged TTL or more the lookup reports
\* absent (it goes to the network), and _get_cached removes the entry.
C2_CacheFreshness ==
    [][\A t \in Tasks : BeginStep(t) =>
         /\ pc'[t] = "idle" =>
               /\ CreatedAt(client, BeginKey(t)) = {ret'.cached_at}
               /\ now - ret'.cached_at < Ttl(client)
               /\ client = "llama" => ret'.value = llamaCache[BeginKey(t)].value
               /\ client = "rekt" => ret'.list = RektCached(rektCache)
         /\ \A a \in CreatedAt(client, BeginKey(t)) :
               now - a >= Ttl(client) =>
                  /\ pc'[t] = "awaiting"
                  /\ client = "llama" => BeginKey(t) \notin DOMAIN llamaCache'
      ]_vars

\* C2 witness: one lookup was served from the cache at an age between 0 and
\* the TTL, and another lookup, at least a TTL after the start, found its key
\* expired: the key is gone from the store and the lookup awaits the network.
C2_Witness ==
    /\ client = "llama"
    /\ ret.src = "cache"
    /\ ret.at - ret.cached_at > 0
    /\ now >= cache_ttl
    /\ \E t \in Tasks :
          pc[t] = "awaiting" /\ key[t] # ret.key /\ key[t] \notin DOMAIN llamaCache

\* C3: for sequential requests, after a successful fetch of a key at time t
\* every request for it before t + TTL is answered with the cached value and
\* makes no call; the first request at or after t + TTL makes one fresh call,
\* whose result replaces the entry and restarts its age.
C3_SequentialTtl ==
    [][\A t \in Tasks : Sequential =>
         /\ BeginStep(t) =>
               \A a \in CreatedAt(client, BeginKey(t)) :
                  /\ now < a + Ttl(client) =>
                        /\ pc'[t] = "idle"
                        /\ ret'.src = "cache"
                        /\ client = "llama" => ret'.value = llamaCache[BeginKey(t)].value
                        /\ client = "rekt" => ret'.list = RektCached(rektCache)
                  /\ now >= a + Ttl(client) => pc'[t] = "awaiting"
         /\ (pc[t] = "awaiting" /\ pc'[t] = "idle" /\ ret'.upstream = "ok") =>
               /\ CreatedAt(client, key[t])' = {now}
               /\ client = "llama" => llamaCache'[key[t]].value = ret'.value
               /\ client = "rekt" => RektCached(rektCache)' = ret'.list
      ]_vars

\* C4: a failed fetch never populates the cache: when the network call ends in
\* an HTTP error status, a request error, a timeout or a parse failure of the
\* payload, the caches hold afterwards exactly the entries (value and
\* created-at time) they held before, so the failed call leaves nothing that
\* keeps the next request for the key from calling the source.
C4_FailureNotCached ==
    [][\A t \in Tasks :
         (EndStep(t) /\ ret'.upstream \in UpstreamFailures) =>
            UNCHANGED <<llamaCache, rektCache, rektCacheTime>>
      ]_vars

\* C5: the normalizer maps the spaced display form and the hyphenated slug
\* form of one name to the same token: "Cream Finance" and "cream-finance"
\* both give "cream"; "BadgerDAO" gives "badgerdao"; None and the empty
\* string give the empty token.
C5_NormalizeExamples ==
    token # NotRun =>
       /\ nameIn = T_Cream_Finance => token = T_cream
       /\ nameIn = T_cream_finance => token = T_cream
       /\ nameIn = T_BadgerDAO => token = T_badgerdao
       /\ nameIn \in {NoName, <<>>} => token = <<>>

-----------------------------------------------------------------------------
(* The correlator's call, for the properties below. *)

CorrSlug == normalize_protocol_name(corr.slug)
CorrName == normalized_name_of(corr.name)

\* The feed positions of the incidents the call returned.
ReturnedIdx == {corr.incidents[n].idx : n \in DOMAIN corr.incidents}

\* The feed positions for which one of the three policies of the code fires.
PolicyIdx == {i \in DOMAIN corr.data : Matches(corr.data[i], CorrSlug, CorrName)}

IsQuery(slug, name) == corr.called /\ corr.slug = slug /\ corr.name = name

\* C6: fetch_protocol_incidents returns a feed record if and only if one of
\* the three policies (exact, partial, tag) fires for it; on the feed of
\* Cream Finance, Poly Network and BadgerDAO the query ("cream-finance",
\* "Cream Finance") returns exactly the Cream record and the query ("uniswap",
\* "Uniswap") returns none.
C6_ReturnedIffPolicyFires ==
    corr.called =>
       /\ ReturnedIdx = PolicyIdx
       /\ (corr.data = FixtureFeed /\ IsQuery(T_cream_finance, T_Cream_Finance)) =>
             (Len(corr.incidents) = 1 /\ ReturnedIdx = {1})
       /\ (corr.data = FixtureFeed /\ IsQuery(T_uniswap, T_Uniswap)) =>
             corr.incidents = <<>>

\* The exact-match policy as C7 states it: the normalized record slug or the
\* normalized record name equals the normalized query slug, or equals the
\* normalized query name.
C7_ExactPolicy(item) ==
    \/ item_slug_of(item) = CorrSlug
    \/ item_protocol_of(item) = CorrSlug
    \/ Truthy(CorrName) /\ item_slug_of(item) = CorrName
    \/ Truthy(CorrName) /\ item_protocol_of(item) = CorrName

\* C7: a feed record is included whenever its normalized slug or its
\* normalized protocol name equals the normalized query slug or the normalized
\* query display name (all four combinations).  Stated for the calls that
\* return a list.
C7_ExactMatchIncluded ==
    (corr.called /\ corr.kind = "value") =>
       \A i \in DOMAIN corr.data : C7_ExactPolicy(corr.data[i]) => i \in ReturnedIdx

\* The partial-match policy as C8 states it, for one field of the record:
\* the base tokens are equal, or the query base lies within the field, or the
\* field's base lies within the query slug.
C8_FieldPolicy(field) ==
    LET base_slug == SplitFirst(CorrSlug)
        base_field == SplitFirst(field)
    IN  /\ base_slug # <<>>
        /\ base_field # <<>>
        /\ \/ base_slug = base_field
           \/ Contains(field, base_slug)
           \/ Contains(CorrSlug, base_field)

\* C8: when no exact match fires, a record is included if the partial policy
\* holds on its slug field or on its name field.  Stated for the calls that
\* return a list.
C8_PartialMatchIncluded ==
    (corr.called /\ corr.kind = "value") =>
       \A i \in DOMAIN corr.data :
          (\/ C8_FieldPolicy(item_slug_of(corr.data[i]))
           \/ C8_FieldPolicy(item_protocol_of(corr.data[i])))
             => i \in ReturnedIdx

\* C9: the list fetch_protocol_incidents returns is a re-ordering of the
\* matched records, each exactly once (no duplicate for a record several
\* policies match, never longer than the feed), newest first: the dates are
\* non-increasing along the list.
C9_MatchedOnceNewestFirst ==
    (corr.called /\ corr.kind = "value" /\ corr.data # <<>>) =>
       /\ ReturnedIdx = PolicyIdx
       /\ Cardinality(ReturnedIdx) = Len(corr.incidents)
       /\ Len(corr.incidents) <= Len(corr.data)
       /\ \A n \in DOMAIN corr.incidents :
             LET inc == corr.incidents[n]
                 item == corr.data[inc.idx]
             IN  /\ inc.amount_lost_usd = item.amount.v
                 /\ inc.date.t = IF item.date.kind = "none" THEN now ELSE item.date.t
       /\ \A m, n \in DOMAIN corr.incidents :
             m < n => corr.incidents[m].date.t >= corr.incidents[n].date.t

\* C9 witness: two records matched, the older first in the feed and the first
\* of them by two policies (exact and tag); the list holds the newer first.
C9_Witness ==
    /\ IsQuery(T_cream, T_Cream_Finance)
    /\ corr.kind = "value"
    /\ corr.data = <<CreamItem, Cream2Item>>
    /\ exact_match(item_slug_of(CreamItem), item_protocol_of(CreamItem), CorrSlug, CorrName)
    /\ tag_match(item_tags_of(CreamItem), CorrSlug, CorrName)
    /\ Len(corr.incidents) = 2
    /\ corr.incidents[1].idx = 2
    /\ corr.incidents[2].idx = 1

\* The weight the risk metrics give each level: the order of the levels.
severity_weights(level) ==
    CASE level = "critical" -> 10 [] level = "high" -> 7
      [] level = "medium" -> 4 [] level = "low" -> 2

\* C10: every amount gets one level, with strict brackets: above 50,000,000
\* critical, else above 10,000,000 high, else above 1,000,000 medium, else
\* low; the boundary amounts fall in the lower bracket, and the level does
\* not decrease when the amount grows.
C10_SeverityBrackets ==
    severityOut # <<>> =>
       /\ \A i \in DOMAIN amountIn :
             /\ severityOut[i] = "critical" <=> amountIn[i] >= 50000001
             /\ severityOut[i] = "high" <=> amountIn[i] \in 10000001..50000000
             /\ severityOut[i] = "medium" <=> amountIn[i] \in 1000001..10000000
             /\ severityOut[i] = "low" <=> amountIn[i] <= 1000000
       /\ \A i, j \in DOMAIN amountIn :
             amountIn[i] <= amountIn[j] =>
                severity_weights(severityOut[i]) <= severity_weights(severityOut[j])

\* C10 witness: exactly 50,000,000 classified high beside 50,000,001
\* classified critical.
C10_Witness ==
    /\ amountIn = <<50000000, 50000001>>
    /\ severityOut = <<"high", "critical">>

-----------------------------------------------------------------------------
(* DefiLlamaClient.fetch_protocol_data, one call after the other on the     *)
(* shared client and scraper.  What the sites answer is fixed for a run.     *)

T_cream_finance_query == <<"C","R","E","A","M","-","F","I","N","A","N","C","E">>

\* The entries of the /protocols list.
ProtocolEntry(slug, name) == [slug |-> slug, name |-> name]

ProtocolsList ==
    <<ProtocolEntry(T_uniswap, T_Uniswap),
      ProtocolEntry(T_cream_finance, T_Cream_Finance)>>

\* f"/protocol/{slug}"
DetailEndpoint(slug) ==
    CASE slug = T_cream_finance -> "/protocol/cream-finance"
      [] slug = T_uniswap -> "/protocol/uniswap"

\* _request(endpoint) with no other task between the cache check and the
\* response: the cache it leaves and what it gives its caller.
request_seq(cache, endpoint, resp, t) ==
    LET url == Url(endpoint)
        cached == get_cached(cache, url, t)
        store == get_cached_store(cache, url, t)
    IN  IF CacheHit(cached)
        THEN [cache |-> store,
              ret |-> Returned("cache", url, cached, <<>>, cache[url].cached_at, t, "")]
        ELSE [cache |-> request_store(store, url, resp, t),
              ret |-> request_result(url, resp, t)]

\* The first position of the list among hits, 0 if there is none.
FirstIdx(hits) ==
    IF hits = {} THEN 0 ELSE CHOOSE i \in hits : \A j \in hits : i <= j

\* search_protocol on the parsed list: the slug found, NoName for None.
search_protocol(protocols, query) ==
    LET query_lower == lower(query)
        exact == FirstIdx({i \in DOMAIN protocols :
                    \/ lower(protocols[i].slug) = query_lower
                    \/ lower(protocols[i].name) = query_lower})
        partial == FirstIdx({i \in DOMAIN protocols :
                    \/ Contains(lower(protocols[i].slug), query_lower)
                    \/ Contains(lower(protocols[i].name), query_lower)})
    IN  IF exact # 0 THEN protocols[exact].slug
        ELSE IF partial # 0 THEN protocols[partial].slug
        ELSE NoName

\* data.get("name", slug) on the detail document.
detail_name(body, slug) ==
    IF body = "detail"
    THEN ProtocolsList[FirstIdx({i \in DOMAIN ProtocolsList :
                                    ProtocolsList[i].slug = slug})].name
    ELSE slug

\* Lines 36-71: how the try block of fetch_leaderboard_data ends for a page.
leaderboard_try(page) ==
    IF RektParsed(page)
    THEN [kind |-> "value", data |-> ParsePage(page), exc |-> ""]
    ELSE [kind |-> "raise", data |-> <<>>, exc |-> RektUpstream(page)]

leaderboard_reraise(outcome) == outcome

\* Lines 73-76: except Exception: return [].
leaderboard_except(outcome) ==
    IF outcome.kind = "raise"
    THEN [kind |-> "value", data |-> <<>>, exc |-> ""]
    ELSE outcome

\* fetch_leaderboard_data with no other task in between: the cache it
\* leaves, how it ends, the list it returns, and how the network call ended
\* ("cache" when none was made).
leaderboard_seq(cache, cache_time, page, t) ==
    LET hit == RektFresh(cache_time, t)
        stored == ~hit /\ leaderboard_try(page).kind = "value"
        outcome == leaderboard_except(leaderboard_try(page))
    IN  [cache |-> IF stored THEN [k \in {LEADERBOARD_KEY} |-> ParsePage(page)]
                   ELSE cache,
         cache_time |-> IF stored THEN <<t>> ELSE cache_time,
         kind |-> IF hit THEN "value" ELSE outcome.kind,
         data |-> IF hit THEN RektCached(cache) ELSE outcome.data,
         upstream |-> IF hit THEN "cache" ELSE RektUpstream(page)]

\* Lines 264-332: fetch_protocol_incidents on what fetch_leaderboard_data
\* gave; an exception of that call goes on to the caller.
incidents_of_board(slug, name, board, t) ==
    IF board.kind = "raise"
    THEN [correlate(slug, name, <<>>, t) EXCEPT !.kind = "raise", !.exc = "Exception"]
    ELSE correlate(slug, name, board.data, t)

\* Lines 175-178: except Exception: incidents = [].
scraper_errors_absorbed(c) ==
    IF c.kind = "value" THEN c.incidents ELSE <<>>

\* ProtocolData(...): the fields the incident path fills.
ProtocolData(name, slug, incidents) ==
    [name |-> name, slug |-> slug, incidents |-> incidents]

\* The outcome of a call that raised: at which stage ("list", "search",
\* "detail"), and what the upstream had done there.
DataRaised(query, exc, stage, cause) ==
    [NoData EXCEPT !.called = TRUE, !.query = query, !.kind = "raise",
                   !.exc = exc, !.stage = stage, !.cause = cause]

\* The exceptions of class DefiLlamaError, by their message.
DefiLlamaErrors ==
    {"DefiLlamaError: Protocol not found", "DefiLlamaError: API error",
     "DefiLlamaError: Request failed",
     "DefiLlamaError: Protocol '{protocol_name}' not found"}

\* Lines 102-202 without the incident part: the outcome when the call raises
\* before line 173, else the slug and the detail document's body.
fetch_entity(query, list_ret, detail_ret, slug) ==
    IF list_ret.kind = "raise"
    THEN DataRaised(query, list_ret.exc, "list", list_ret.upstream)
    ELSE IF list_ret.value = None
    THEN DataRaised(query, "TypeError", "list", "null")
    ELSE IF ~Truthy(slug)
    THEN DataRaised(query, "DefiLlamaError: Protocol '{protocol_name}' not found",
                    "search", "none")
    ELSE IF detail_ret.kind = "raise"
    THEN DataRaised(query, detail_ret.exc, "detail", detail_ret.upstream)
    ELSE IF detail_ret.value = None
    THEN DataRaised(query, "AttributeError", "detail", "null")
    ELSE [NoData EXCEPT !.called = TRUE, !.query = query, !.kind = "value"]

\* DataAgent.run for the one protocol of the query, then
\* DeFiRiskWorkflow.analyze: the error of the state and how analyze ends
\* at this stage ("continues": the workflow goes on to the risk agent).
data_agent_run(d) ==
    IF d.kind = "value"
    THEN [d EXCEPT !.analyze = "continues"]
    ELSE IF d.exc \in DefiLlamaErrors
    THEN [d EXCEPT !.error = <<"Failed to fetch all protocols: {name}: ", d.exc>>,
                   !.analyze = "RuntimeError"]
    ELSE [d EXCEPT !.analyze = d.exc]

\* The parsed /protocols list a lookup returned (empty when it raised or
\* returned None).
protocols_of(list_ret) ==
    IF list_ret.kind = "value" /\ list_ret.value = "protocols"
    THEN ProtocolsList ELSE <<>>

\* Line 110: get_protocol(slug), reached only when a slug was found.
get_protocol(list_lookup, slug) ==
    IF /\ list_lookup.ret.kind = "value"
       /\ list_lookup.ret.value # None
       /\ Truthy(slug)
    THEN request_seq(list_lookup.cache, DetailEndpoint(slug), site.detail, now)
    ELSE [cache |-> list_lookup.cache, ret |-> NoRet]

\* Lines 173-202: the incidents, absorbed when the scraper raises, and the
\* ProtocolData built.
with_incidents(entity, name, slug, board, c) ==
    LET data == ProtocolData(name, slug, scraper_errors_absorbed(c))
    IN  [entity EXCEPT !.name = data.name, !.slug = data.slug,
                       !.incidents = data.incidents, !.feed = board.upstream,
                       !.board = board.kind, !.data = board.data,
                       !.corr = c.kind]

fetch_incident_part(entity, name, slug, board) ==
    /\ rektCache' = board.cache
    /\ rektCacheTime' = board.cache_time
    /\ pdata' = data_agent_run(
           with_incidents(entity, name, slug, board,
                          incidents_of_board(slug, name, board, now)))

fetch_detail_part(protocol_name, list_ret, slug, detail_lookup) ==
    /\ llamaCache' = detail_lookup.cache
    /\ IF fetch_entity(protocol_name, list_ret, detail_lookup.ret, slug).kind = "value"
       THEN fetch_incident_part(
               fetch_entity(protocol_name, list_ret, detail_lookup.ret, slug),
               detail_name(detail_lookup.ret.value, slug), slug,
               leaderboard_seq(rektCache, rektCacheTime, site.page, now))
       ELSE /\ UNCHANGED <<rektCache, rektCacheTime>>
            /\ pdata' = data_agent_run(
                   fetch_entity(protocol_name, list_ret, detail_lookup.ret, slug))

fetch_search_part(protocol_name, list_lookup, slug) ==
    fetch_detail_part(protocol_name, list_lookup.ret, slug,
                      get_protocol(list_lookup, slug))

fetch_list_part(protocol_name, list_lookup) ==
    fetch_search_part(protocol_name, list_lookup,
                      search_protocol(protocols_of(list_lookup.ret), protocol_name))

fetch_protocol_data(protocol_name) ==
    /\ \A t \in Tasks : pc[t] = "idle"
    /\ fetch_list_part(protocol_name,
                       request_seq(llamaCache, "/protocols", site.list, now))
    /\ UNCHANGED <<client, now, ticks, pc, op, key, ret, site,
                   scraperVars, riskVars, flowVars>>

\* What /protocols and /protocol/{slug} answer in a run.
ListAnswers ==
    [kind : {"response"}, status : {200}, body : {"protocols", "null", "<html>"}]
      \cup [kind : {"response"}, status : {404, 500}, body : {""}]
      \cup [kind : {"request_error", "timeout"}, status : {0}, body : {""}]

DetailAnswers ==
    [kind : {"response"}, status : {200}, body : {"detail", "detail_noname", "null"}]
      \cup [kind : {"response"}, status : {404, 500}, body : {""}]
      \cup [kind : {"request_error"}, status : {0}, body : {""}]

\* What the incident site answers in a run.
ProtocolFeeds ==
    {FixtureFeed, <<CreamItem, CreamBadAmountItem>>, <<CreamNoDateItem>>,
     <<CreamBadDateItem, Cream2Item>>}

ProtocolPages ==
    {Page("list", f, <<>>) : f \in ProtocolFeeds}
      \cup RektFailures \cup {Page("malformed", <<>>, <<>>)}

ProtocolQueries == {T_cream_finance_query, T_Cream_Finance, T_cream, T_uniswap, T_qq}

InitProtocol ==
    /\ client = "llama"
    /\ CacheInit
    /\ ScraperIdle
    /\ \E l \in ListAnswers, d \in DetailAnswers, p \in ProtocolPages :
            site = [list |-> l, detail |-> d, page |-> p]
    /\ pdata = NoData
    /\ FlowIdle
    /\ RiskIdle

NextProtocol == \E q \in ProtocolQueries : fetch_protocol_data(q)

SpecProtocol == InitProtocol /\ [][NextProtocol]_vars

-----------------------------------------------------------------------------
C12_WellFormed(item) == item.amount.ok /\ item.date.kind = "iso"

\* C12: a malformed feed record is skipped without affecting the batch: when
\* the feed was read, the incidents of the ProtocolData are exactly the
\* well-formed records that match the query; a matching record with a
\* missing or unparsable date or amount is left out.
C12_MalformedRecordSkipped ==
    (pdata.called /\ pdata.kind = "value" /\ pdata.feed = "ok") =>
       LET matched == MatchedIdx(pdata.data, pdata.slug, pdata.name)
       IN  {pdata.incidents[n].idx : n \in DOMAIN pdata.incidents}
             = {matched[n] : n \in {k \in DOMAIN matched :
                                       C12_WellFormed(pdata.data[matched[k]])}}

\* The entity has no match in the data source: the search of a parsed list
\* found no slug, or the detail endpoint answered 404.
C13_NotFoundCase ==
    /\ pdata.kind = "raise"
    /\ \/ pdata.stage = "search"
       \/ /\ pdata.stage = "detail"
          /\ pdata.cause = "http_error"
          /\ site.detail.status = 404

\* The errors whose message says that the protocol was not found (each
\* message also carries the name or the endpoint asked for).
C13_NotFoundErrors ==
    {"DefiLlamaError: Protocol not found",
     "DefiLlamaError: Protocol '{protocol_name}' not found"}

\* C13: when the entity has no match, fetch_protocol_data raises a
\* DefiLlamaError that says not found, no ProtocolData is produced, the
\* workflow run ends with error set and analyze raises; and the error raised
\* for any other upstream failure is not a not-found error.
C13_NotFoundDistinct ==
    pdata.called =>
       /\ C13_NotFoundCase =>
             /\ pdata.exc \in C13_NotFoundErrors
             /\ pdata.incidents = <<>> /\ pdata.name = <<>> /\ pdata.slug = <<>>
             /\ pdata.error # <<>>
             /\ pdata.analyze = "RuntimeError"
       /\ (pdata.kind = "raise" /\ ~C13_NotFoundCase) =>
             pdata.exc \notin C13_NotFoundErrors

-----------------------------------------------------------------------------
(* RiskScore and RiskCalculator.calculate_overall_risk.  A number a caller
   writes is kept in the state as its decimal literal <<num, den>>, eg
   <<15, 100>> for 0.15, and becomes a float where Python reads it. *)

MaxFactors == 3

Literal(d) == FDec(d[1], d[2])

\* The level of from_score with the thresholds excluded.
from_score_level_exclusive(score) ==
    IF FLt(score, FInt(3)) THEN "low"
    ELSE IF FLt(score, FInt(5)) THEN "medium"
    ELSE IF FLt(score, FInt(7)) THEN "high"
    ELSE "critical"

RiskFactor(name, score, weight) ==
    [name |-> name, score |-> score, weight |-> weight]

\* The constructor validates overall: 0 <= overall <= 10.
RiskScore(overall, level, factors) ==
    IF FLe(FZero, overall) /\ FLe(overall, FInt(10))
    THEN [kind |-> "value", overall |-> overall, level |-> level,
          factors |-> factors, exc |-> ""]
    ELSE [kind |-> "raise", overall |-> overall, level |-> level,
          factors |-> factors, exc |-> "ValidationError"]

from_score_level(score) ==
    IF FLe(score, FInt(3)) THEN "low"
    ELSE IF FLe(score, FInt(5)) THEN "medium"
    ELSE IF FLe(score, FInt(7)) THEN "high"
    ELSE "critical"

from_score(score, factors) == RiskScore(score, from_score_level(score), factors)

\* sum() of floats in CPython up to 3.11: the items are added left to right.
RECURSIVE sum_left_to_right(_, _, _)
sum_left_to_right(xs, i, result) ==
    IF i > Len(xs) THEN result
    ELSE sum_left_to_right(xs, i + 1, FAdd(result, xs[i]))

\* sum() of floats in CPython from 3.12: the rounding error of every addition
\* is collected in c and added at the end.
RECURSIVE sum_compensated(_, _, _, _)
sum_compensated(xs, i, f_result, c) ==
    IF i > Len(xs)
    THEN IF c # FZero THEN FAdd(f_result, c) ELSE f_result
    ELSE sum_compensated(xs, i + 1, FAdd(f_result, xs[i]),
            IF FLe(FAbs(xs[i]), FAbs(f_result))
            THEN FAdd(c, FAdd(FSub(f_result, FAdd(f_result, xs[i])), xs[i]))
            ELSE FAdd(c, FAdd(FSub(xs[i], FAdd(f_result, xs[i])), f_result)))

SumImpls == {"left_to_right", "compensated"}

sum(xs, impl) ==
    IF impl = "compensated" THEN sum_compensated(xs, 1, FZero, FZero)
    ELSE sum_left_to_right(xs, 1, FZero)

total_weight(factors, impl) ==
    sum([i \in DOMAIN factors |-> factors[i].weight], impl)

weighted_sum(factors, impl) ==
    sum([i \in DOMAIN factors |-> FMul(factors[i].score, factors[i].weight)], impl)

overall_risk(factors, total, impl) ==
    IF total = FZero THEN RiskScore(FDec(50, 10), "medium", factors)
    ELSE from_score(FDiv(weighted_sum(factors, impl), total), factors)

calculate_overall_risk(factors, impl) ==
    IF factors = <<>> THEN RiskScore(FDec(50, 10), "medium", <<>>)
    ELSE overall_risk(factors, total_weight(factors, impl), impl)

\* The factors a caller builds from literals.
Factors(lits) ==
    [i \in DOMAIN lits |-> RiskFactor("Test", Literal(lits[i].score), Literal(lits[i].weight))]

FactorLiteral(score, weight) == [score |-> score, weight |-> weight]

FactorInputs ==
    {FactorLiteral(<<100, 10>>, <<8, 100>>), FactorLiteral(<<100, 10>>, <<92, 100>>),
     FactorLiteral(<<1, 10>>, <<10, 100>>), FactorLiteral(<<20, 10>>, <<100, 100>>),
     FactorLiteral(<<70, 10>>, <<0, 100>>),
     FactorLiteral(<<78, 10>>, <<21, 100>>), FactorLiteral(<<14, 10>>, <<72, 100>>),
     FactorLiteral(<<39, 10>>, <<16, 100>>)}

FactorLists == UNION {[1..n -> FactorInputs] : n \in 0..MaxFactors}

calculate_call ==
    /\ riskScore = NoScore
    /\ riskScore' = calculate_overall_risk(Factors(factorsIn), sumImpl)
    /\ UNCHANGED <<cacheVars, scraperVars, protoVars, flowVars, factorsIn, sumImpl, scoreIn, scoreOut,
                   protocolIn, factorOut, assessment>>

InitOverall ==
    /\ client = "none"
    /\ CacheInit
    /\ ScraperIdle
    /\ site = NoSite
    /\ pdata = NoData
    /\ FlowIdle
    /\ factorsIn \in FactorLists
    /\ riskScore = NoScore
    /\ sumImpl \in SumImpls
    /\ scoreIn = <<>>
    /\ scoreOut = <<>>
    /\ protocolIn = NoProtocol
    /\ factorOut = NoFactor
    /\ assessment = NoAssessment

NextOverall == calculate_call

SpecOverall == InitOverall /\ [][NextOverall]_vars

\* The scores from_score is called with, two per run.
ScoreInputs ==
    {<<n, 10>> : n \in {0, 29, 30, 31, 50, 51, 70, 71, 100, 101}}

\* The lists of test_risk_level_classification, the empty list and a list of
\* weight zero.
LevelFactorLists ==
    {<<>>, <<FactorLiteral(<<70, 10>>, <<0, 100>>)>>}
    \cup {<<FactorLiteral(<<n, 10>>, <<100, 100>>)>> : n \in {20, 40, 60, 85}}

from_score_call ==
    /\ scoreIn # <<>>
    /\ scoreOut = <<>>
    /\ scoreOut' = [i \in DOMAIN scoreIn |-> from_score(Literal(scoreIn[i]), <<>>)]
    /\ UNCHANGED <<cacheVars, scraperVars, protoVars, flowVars, factorsIn, riskScore, sumImpl, scoreIn,
                   protocolIn, factorOut, assessment>>

InitLevel ==
    /\ client = "none"
    /\ CacheInit
    /\ ScraperIdle
    /\ site = NoSite
    /\ pdata = NoData
    /\ FlowIdle
    /\ factorsIn \in LevelFactorLists
    /\ riskScore = NoScore
    /\ sumImpl \in SumImpls
    /\ scoreIn \in ScoreInputs \X ScoreInputs
    /\ scoreOut = <<>>
    /\ protocolIn = NoProtocol
    /\ factorOut = NoFactor
    /\ assessment = NoAssessment

NextLevel == from_score_call \/ calculate_call

SpecLevel == InitLevel /\ [][NextLevel]_vars

\* A literal of at most two decimal places, in hundredths.
Hundredths(d) == d[1] * (100 \div d[2])

RECURSIVE SumHundredths(_)
SumHundredths(ds) ==
    IF ds = <<>> THEN 0 ELSE Hundredths(Head(ds)) + SumHundredths(Tail(ds))

WeightLiterals(lits) == [i \in DOMAIN lits |-> lits[i].weight]

\* The call has returned or raised for a non-empty list whose weights sum to
\* 1.0, as decimals and as the floats the code adds.
C14_Applies ==
    /\ riskScore.kind # "none"
    /\ factorsIn # <<>>
    /\ SumHundredths(WeightLiterals(factorsIn)) = 100
    /\ total_weight(Factors(factorsIn), sumImpl) = FInt(1)

\* C14: for a non-empty factor list with scores in [0,10] and non-negative
\* weights summing to 1.0, calculate_overall_risk returns an overall score in
\* [0,10] that lies between the smallest and the largest factor score.
C14_OverallInRange ==
    C14_Applies =>
       /\ riskScore.kind = "value"
       /\ FLe(FZero, riskScore.overall) /\ FLe(riskScore.overall, FInt(10))
       /\ \E i \in DOMAIN factorsIn : FLe(Literal(factorsIn[i].score), riskScore.overall)
       /\ \E i \in DOMAIN factorsIn : FLe(riskScore.overall, Literal(factorsIn[i].score))

\* The list is empty or the weights of all its factors sum to zero.
C15_DefaultCase ==
    factorsIn = <<>> \/ SumHundredths(WeightLiterals(factorsIn)) = 0

\* C15: calculate_overall_risk returns overall 5.0 with level medium, without
\* failing, when the list is empty or the weights sum to zero; in every other
\* case overall is the weighted mean of the scores, so factors that all carry
\* the same score s yield overall = s.
C15_DefaultOrWeightedMean ==
    riskScore.kind # "none" =>
       /\ C15_DefaultCase =>
             /\ riskScore.kind = "value"
             /\ riskScore.overall = FDec(50, 10)
             /\ riskScore.level = "medium"
       /\ ~C15_DefaultCase =>
             \A i \in DOMAIN factorsIn :
                (\A j \in DOMAIN factorsIn : factorsIn[j].score = factorsIn[i].score)
                   => /\ riskScore.kind = "value"
                      /\ riskScore.overall = Literal(factorsIn[i].score)

\* The orders in which a caller can pass the factors of lits.
Reorderings(lits) ==
    {[i \in DOMAIN lits |-> lits[p[i]]] : p \in Permutations(DOMAIN lits)}

\* C16: for every factor list and every permutation of it,
\* calculate_overall_risk gives the same overall score and the same level.
C16_OrderIndependent ==
    riskScore.kind # "none" =>
       \A other \in Reorderings(factorsIn) :
          /\ calculate_overall_risk(Factors(other), sumImpl).kind = riskScore.kind
          /\ calculate_overall_risk(Factors(other), sumImpl).overall = riskScore.overall
          /\ calculate_overall_risk(Factors(other), sumImpl).level = riskScore.level

\* The RiskScore objects of the run: those from_score returned and the one
\* calculate_overall_risk returned.
C17_Produced ==
    {scoreOut[i] : i \in {j \in DOMAIN scoreOut : scoreOut[j].kind = "value"}}
    \cup (IF riskScore.kind = "value" THEN {riskScore} ELSE {})

C17_LevelRank(level) ==
    CASE level = "low" -> 1
      [] level = "medium" -> 2
      [] level = "high" -> 3
      [] level = "critical" -> 4

C17_Examples ==
    [s \in {<<30, 10>>, <<31, 10>>, <<50, 10>>, <<51, 10>>, <<70, 10>>, <<71, 10>>} |->
        CASE s = <<30, 10>> -> "low"
          [] s = <<31, 10>> -> "medium"
          [] s = <<50, 10>> -> "medium"
          [] s = <<51, 10>> -> "high"
          [] s = <<70, 10>> -> "high"
          [] s = <<71, 10>> -> "critical"]

\* C17: in every RiskScore produced by from_score or calculate_overall_risk
\* (the default 5.0 results included) overall <= 3 is low, <= 5 medium, <= 7
\* high and > 7 critical; 3.0 is low, 3.1 medium, 5.0 medium, 5.1 high, 7.0
\* high, 7.1 critical; and the level never decreases when overall increases.
C17_LevelFunctionOfOverall ==
    /\ \A r \in C17_Produced :
          /\ r.level = "low" <=> FLe(r.overall, FInt(3))
          /\ r.level = "medium" <=> (~FLe(r.overall, FInt(3)) /\ FLe(r.overall, FInt(5)))
          /\ r.level = "high" <=> (~FLe(r.overall, FInt(5)) /\ FLe(r.overall, FInt(7)))
          /\ r.level = "critical" <=> ~FLe(r.overall, FInt(7))
    /\ \A i \in DOMAIN scoreOut :
          scoreIn[i] \in DOMAIN C17_Examples =>
             scoreOut[i].kind = "value" /\ scoreOut[i].level = C17_Examples[scoreIn[i]]
    /\ \A r1, r2 \in C17_Produced :
          FLe(r1.overall, r2.overall) => C17_LevelRank(r1.level) <= C17_LevelRank(r2.level)

\* from_score has run for 3.0 and 3.1, and calculate_overall_risk has
\* returned its default for a list without weight.
C17_Witness ==
    /\ scoreIn = << <<30, 10>>, <<31, 10>> >>
    /\ scoreOut # <<>>
    /\ scoreOut[1].level = "low" /\ scoreOut[2].level = "medium"
    /\ factorsIn = <<FactorLiteral(<<70, 10>>, <<0, 100>>)>>
    /\ riskScore.kind = "value"
    /\ riskScore.overall = FDec(50, 10) /\ riskScore.level = "medium"

-----------------------------------------------------------------------------
(* RiskCalculator.assess_incident_risk *)

MaxIncidents == 2

FMin(a, b) == IF FLe(a, b) THEN a ELSE b

\* A factor an assessor returns, or the error of its constructor: score must
\* lie in [0,10] and weight in [0,1].
Assessed(factor) ==
    IF /\ FLe(FZero, factor.score) /\ FLe(factor.score, FInt(10))
       /\ FLe(FZero, factor.weight) /\ FLe(factor.weight, FInt(1))
    THEN [kind |-> "value", exc |-> "", name |-> factor.name,
          score |-> factor.score, weight |-> factor.weight]
    ELSE [kind |-> "raise", exc |-> "ValidationError", name |-> factor.name,
          score |-> factor.score, weight |-> factor.weight]

AssessRaised(exc) ==
    [kind |-> "raise", exc |-> exc, name |-> "", score |-> FZero, weight |-> FZero]

\* (now - incident.date).days, for a date without UTC offset.
days_ago(t, date) == (t - date.t) \div Day

recency_points(days) ==
    IF days <= 30 THEN 10
    ELSE IF days <= 180 THEN 8
    ELSE IF days <= 365 THEN 5
    ELSE IF days <= 730 THEN 3
    ELSE 1

RECURSIVE SumInts(_)
SumInts(ns) == IF ns = <<>> THEN 0 ELSE Head(ns) + SumInts(Tail(ns))

recency_score(incidents, t) ==
    FMin(FDec(100, 10),
         FDiv(FInt(SumInts([i \in DOMAIN incidents |->
                               recency_points(days_ago(t, incidents[i].date))])),
              FInt(Len(incidents))))

severity_score(incidents) ==
    FMin(FDec(100, 10),
         FDiv(FInt(SumInts([i \in DOMAIN incidents |->
                               severity_weights(incidents[i].severity)])),
              FInt(Len(incidents))))

unfixed_count(incidents) ==
    Cardinality({i \in DOMAIN incidents : ~incidents[i].fixed})

resolution_score(incidents) ==
    FMin(FDec(100, 10),
         FMul(FDiv(FInt(unfixed_count(incidents)), FInt(Len(incidents))), FInt(10)))

final_score(recency, severity, resolution) ==
    FAdd(FAdd(FMul(recency, FDec(5, 10)), FMul(severity, FDec(4, 10))),
         FMul(resolution, FDec(1, 10)))

\* now = datetime.utcnow() carries no UTC offset: subtracting a date that
\* carries one raises TypeError.
assess_incident_risk(protocol, t) ==
    IF protocol.incidents = <<>>
    THEN Assessed(RiskFactor("Incident History", FDec(20, 10), FDec(15, 100)))
    ELSE IF \E i \in DOMAIN protocol.incidents : protocol.incidents[i].date.aware
    THEN AssessRaised("TypeError")
    ELSE Assessed(RiskFactor("Incident History",
                             final_score(recency_score(protocol.incidents, t),
                                         severity_score(protocol.incidents),
                                         resolution_score(protocol.incidents)),
                             FDec(15, 100)))

\* An amount of each level of _classify_severity.
AmountOfLevel(level) ==
    CASE level = "critical" -> CRITICAL_ABOVE + 1
      [] level = "high" -> HIGH_ABOVE + 1
      [] level = "medium" -> MEDIUM_ABOVE + 1
      [] level = "low" -> MEDIUM_ABOVE

\* The incident the tests build: days old, of a level, fixed or not; aware
\* tells whether its date carries a UTC offset, as the dates parsed from a
\* feed date ending in Z do.
Incident(days, level, fixed, aware) ==
    ExploitIncident(0, <<"T","e","s","t">>, IsoDate(-(days * Day), aware),
                    AmountOfLevel(level), level, <<>>, fixed, <<>>)

Levels == {"critical", "high", "medium", "low"}

IncidentInputs ==
    {Incident(d, l, f, FALSE) : d \in {10, 800}, l \in Levels, f \in BOOLEAN}
    \cup {Incident(d, "medium", TRUE, FALSE) : d \in {30, 31, 180, 181, 365, 366, 730, 731}}
    \cup {Incident(45, "high", FALSE, TRUE)}

IncidentLists == UNION {[1..n -> IncidentInputs] : n \in 0..MaxIncidents}

assess_incident_call ==
    /\ protocolIn.given
    /\ factorOut = NoFactor
    /\ factorOut' = assess_incident_risk(protocolIn, now)
    /\ UNCHANGED <<cacheVars, scraperVars, protoVars, flowVars, factorsIn, riskScore, sumImpl,
                   scoreIn, scoreOut, protocolIn, assessment>>

InitIncidentRisk ==
    /\ client = "none"
    /\ CacheInit
    /\ ScraperIdle
    /\ site = NoSite
    /\ pdata = NoData
    /\ FlowIdle
    /\ factorsIn = <<>>
    /\ riskScore = NoScore
    /\ sumImpl = "left_to_right"
    /\ scoreIn = <<>>
    /\ scoreOut = <<>>
    /\ protocolIn \in {[given |-> TRUE, incidents |-> l] : l \in IncidentLists}
    /\ factorOut = NoFactor
    /\ assessment = NoAssessment

NextIncidentRisk == assess_incident_call

SpecIncidentRisk == InitIncidentRisk /\ [][NextIncidentRisk]_vars

\* The per-incident values the statement gives, and their means.
C19_RecencyValue(days) ==
    IF days <= 30 THEN 10 ELSE IF days <= 180 THEN 8 ELSE IF days <= 365 THEN 5
    ELSE IF days <= 730 THEN 3 ELSE 1

C19_SeverityValue(level) ==
    CASE level = "critical" -> 10 [] level = "high" -> 7
      [] level = "medium" -> 4 [] level = "low" -> 2

C19_Mean(values) == FDiv(FInt(SumInts(values)), FInt(Len(values)))

C19_Recency(incidents) ==
    C19_Mean([i \in DOMAIN incidents |-> C19_RecencyValue((now - incidents[i].date.t) \div Day)])

C19_Severity(incidents) ==
    C19_Mean([i \in DOMAIN incidents |-> C19_SeverityValue(incidents[i].severity)])

C19_Resolution(incidents) ==
    FMul(FInt(10), FDiv(FInt(Cardinality({i \in DOMAIN incidents : ~incidents[i].fixed})),
                        FInt(Len(incidents))))

C19_Composite(incidents) ==
    FAdd(FAdd(FMul(FDec(5, 10), C19_Recency(incidents)),
              FMul(FDec(4, 10), C19_Severity(incidents))),
         FMul(FDec(1, 10), C19_Resolution(incidents)))

\* C19: assess_incident_risk returns score 2.0 for an empty incident list;
\* for a non-empty list the score is 0.5 x recency + 0.4 x severity + 0.1 x
\* resolution with the per-incident values of the statement; a single
\* critical, 10-day-old, unfixed incident scores strictly higher than a single
\* low, 800-day-old, fixed one; and the score lies in [0,10].
C19_IncidentScore ==
    factorOut.kind # "none" =>
       /\ factorOut.kind = "value"
       /\ FLe(FZero, factorOut.score) /\ FLe(factorOut.score, FInt(10))
       /\ protocolIn.incidents = <<>> => factorOut.score = FDec(20, 10)
       /\ protocolIn.incidents # <<>> =>
             factorOut.score = C19_Composite(protocolIn.incidents)
       /\ protocolIn.incidents = <<Incident(10, "critical", FALSE, FALSE)>> =>
             FLt(assess_incident_risk([given |-> TRUE,
                                       incidents |-> <<Incident(800, "low", TRUE, FALSE)>>],
                                      now).score,
                 factorOut.score)

\* C20: for every non-empty incident list, the Incident History score that
\* assess_incident_risk returns is strictly greater than the score it returns
\* for an empty incident list.
C20_IncidentsRaiseScore ==
    (factorOut.kind # "none" /\ protocolIn.incidents # <<>>) =>
       /\ factorOut.kind = "value"
       /\ factorOut.name = "Incident History"
       /\ FLt(assess_incident_risk([given |-> TRUE, incidents |-> <<>>], now).score,
               factorOut.score)

-----------------------------------------------------------------------------
(* The other assessors of RiskCalculator.  Amounts of value locked are given
   in millions of USD and become the float of the amount in USD. *)

Usd(millions) == FMul(FInt(millions), FInt(1000000))

TVL_HIGH_THRESHOLD == Usd(1000)

TVL_MEDIUM_THRESHOLD == Usd(100)

TVL_LOW_THRESHOLD == Usd(10)

VOLATILITY_LOW == <<1, 10>>

VOLATILITY_MEDIUM == <<25, 100>>

CONCENTRATION_LOW == 50

CONCENTRATION_HIGH == 80

\* tvl_change_30d when the source gave none.
NoChange == <<"None">>

TVLDataPoint(t, tvl) == [t |-> t, tvl |-> tvl]

ChainBreakdown(chain, percentage) == [chain |-> chain, percentage |-> percentage]

\* The positive values of the history, line 38.
PositiveTvls(history) ==
    SelectSeq([i \in DOMAIN history |-> history[i].tvl], LAMBDA v : v > 0)

SumSquares(ns) == SumInts([i \in DOMAIN ns |-> ns[i] * ns[i]])

\* stdev / mean <= p / q for the sample standard deviation of statistics.stdev
\* over the n values ns, compared exactly:
\* n (n sum(x^2) - sum(x)^2) / ((n - 1) sum(x)^2) <= (p / q)^2.
DeviationAtMost(ns, p, q) ==
    BigCmp(BigMul(BigOfInt(q * q * Len(ns)),
                  BigOfInt(Len(ns) * SumSquares(ns) - SumInts(ns) * SumInts(ns))),
           BigMul(BigOfInt(p * p * (Len(ns) - 1)),
                  BigMul(BigOfInt(SumInts(ns)), BigOfInt(SumInts(ns))))) <= 0

\* calculate_tvl_volatility(history) <= threshold; the volatility is 0.0 for
\* fewer than two positive values.
volatility_at_most(history, threshold) ==
    IF Len(history) < 2 \/ Len(PositiveTvls(history)) < 2 THEN TRUE
    ELSE DeviationAtMost(PositiveTvls(history), threshold[1], threshold[2])

\* The points of the last 30 days, or the last 30 points when there are
\* fewer than two of them.
recent_points(history, t) ==
    IF Len(SelectSeq(history, LAMBDA pt : pt.t >= t - 30 * Day)) < 2
    THEN SubSeq(history, IF Len(history) > 30 THEN Len(history) - 29 ELSE 1, Len(history))
    ELSE SelectSeq(history, LAMBDA pt : pt.t >= t - 30 * Day)

trend_of(recent) ==
    IF Len(recent) < 2 \/ recent[1].tvl = 0 THEN FZero
    ELSE FMul(FDiv(FSub(Usd(recent[Len(recent)].tvl), Usd(recent[1].tvl)),
                   Usd(recent[1].tvl)),
              FInt(100))

calculate_tvl_trend(history, t) ==
    IF Len(history) < 2 THEN FZero ELSE trend_of(recent_points(history, t))

\* protocol.tvl_change_30d or self.calculate_tvl_trend(...): None and 0.0 are
\* both false.
trend_used(protocol, t) ==
    IF protocol.tvl_change_30d # NoChange /\ Literal(protocol.tvl_change_30d) # FZero
    THEN Literal(protocol.tvl_change_30d)
    ELSE calculate_tvl_trend(protocol.tvl_history, t)

size_score(tvl) ==
    IF FLe(TVL_HIGH_THRESHOLD, tvl) THEN FDec(20, 10)
    ELSE IF FLe(TVL_MEDIUM_THRESHOLD, tvl) THEN FDec(40, 10)
    ELSE IF FLe(TVL_LOW_THRESHOLD, tvl) THEN FDec(60, 10)
    ELSE FDec(80, 10)

vol_score(history) ==
    IF volatility_at_most(history, VOLATILITY_LOW) THEN FDec(20, 10)
    ELSE IF volatility_at_most(history, VOLATILITY_MEDIUM) THEN FDec(50, 10)
    ELSE FDec(80, 10)

trend_score(trend) ==
    IF FLe(FInt(10), trend) THEN FDec(20, 10)
    ELSE IF FLe(FInt(-10), trend) THEN FDec(40, 10)
    ELSE IF FLe(FInt(-30), trend) THEN FDec(60, 10)
    ELSE FDec(90, 10)

assess_tvl_risk(protocol, t) ==
    Assessed(RiskFactor("TVL Risk",
                        FAdd(FAdd(FMul(size_score(Usd(protocol.tvl)), FDec(4, 10)),
                                  FMul(vol_score(protocol.tvl_history), FDec(3, 10))),
                             FMul(trend_score(trend_used(protocol, t)), FDec(3, 10))),
                        FDec(30, 100)))

FMax(a, b) == IF FLe(b, a) THEN a ELSE b

\* The score for the share of the first breakdown of the list.
concentration_score(top_chain_pct) ==
    IF top_chain_pct >= CONCENTRATION_HIGH THEN FDec(70, 10)
    ELSE IF top_chain_pct >= CONCENTRATION_LOW THEN FDec(50, 10)
    ELSE FDec(30, 10)

multi_chain_bonus(score, num_chains) ==
    IF num_chains >= 5 THEN FMax(FDec(20, 10), FSub(score, FDec(15, 10)))
    ELSE IF num_chains >= 3 THEN FMax(FDec(20, 10), FSub(score, FDec(5, 10)))
    ELSE score

assess_chain_risk(protocol) ==
    IF protocol.chain_tvls = <<>>
    THEN Assessed(RiskFactor("Chain Concentration", FDec(50, 10), FDec(25, 100)))
    ELSE Assessed(RiskFactor("Chain Concentration",
                             multi_chain_bonus(
                                 concentration_score(protocol.chain_tvls[1].percentage),
                                 Len(protocol.chains)),
                             FDec(25, 100)))

num_audits(protocol) ==
    IF protocol.audit_links # <<>> THEN Len(protocol.audit_links)
    ELSE IF Len(protocol.audits) > 0 \/ Len(protocol.audit_links) > 0 THEN 1
    ELSE 0

assess_audit_risk(protocol) ==
    Assessed(RiskFactor("Audit Status",
                        IF num_audits(protocol) >= 3 THEN FDec(20, 10)
                        ELSE IF num_audits(protocol) >= 1 THEN FDec(40, 10)
                        ELSE FDec(80, 10),
                        FDec(20, 100)))

\* o.lower() of the oracle names of the inputs.
Lower(o) == IF o = "Chainlink" THEN "chainlink" ELSE o

trusted_oracles == {"chainlink", "pyth", "redstone", "band", "api3", "uma"}

uses_trusted(oracles) == \E i \in DOMAIN oracles : Lower(oracles[i]) \in trusted_oracles

assess_oracle_risk(protocol) ==
    IF protocol.oracles = <<>>
    THEN Assessed(RiskFactor("Oracle Risk", FDec(40, 10), FDec(10, 100)))
    ELSE Assessed(RiskFactor("Oracle Risk",
                             IF uses_trusted(protocol.oracles) /\ Len(protocol.oracles) >= 1
                             THEN FDec(20, 10)
                             ELSE IF Len(protocol.oracles) >= 1 THEN FDec(50, 10)
                             ELSE FDec(60, 10),
                             FDec(10, 100)))

-----------------------------------------------------------------------------
(* RiskCalculator.assess_protocol *)

\* The fields of ProtocolData the assessors read.
ProtocolFields(tvl, tvl_change_30d, tvl_history, chains, chain_tvls, audits, audit_links, oracles, incidents) ==
    [given |-> TRUE, tvl |-> tvl, tvl_change_30d |-> tvl_change_30d,
     tvl_history |-> tvl_history, chains |-> chains, chain_tvls |-> chain_tvls,
     audits |-> audits, audit_links |-> audit_links, oracles |-> oracles,
     incidents |-> incidents]

AssessmentRaised(exc) ==
    [kind |-> "raise", exc |-> exc, factors |-> <<>>, score |-> NoScore]

RiskAssessment(factors, score) ==
    IF score.kind = "raise" THEN AssessmentRaised(score.exc)
    ELSE [kind |-> "value", exc |-> "", factors |-> factors, score |-> score]

\* The five calls of lines 353-359, in their order.
assessed_factors(protocol, t) ==
    <<assess_tvl_risk(protocol, t), assess_chain_risk(protocol),
      assess_audit_risk(protocol), assess_oracle_risk(protocol),
      assess_incident_risk(protocol, t)>>

factors_of(assessed) ==
    [i \in DOMAIN assessed |->
        RiskFactor(assessed[i].name, assessed[i].score, assessed[i].weight)]

\* The first assessor that raises ends the call.
assessment_of(assessed, impl) ==
    IF \E i \in DOMAIN assessed : assessed[i].kind = "raise"
    THEN AssessmentRaised(
             assessed[CHOOSE i \in DOMAIN assessed :
                         /\ assessed[i].kind = "raise"
                         /\ \A j \in 1..(i - 1) : assessed[j].kind # "raise"].exc)
    ELSE RiskAssessment(factors_of(assessed),
                        calculate_overall_risk(factors_of(assessed), impl))

assess_protocol(protocol, t, impl) ==
    assessment_of(assessed_factors(protocol, t), impl)

\* The values of the two protocols of the tests, and of their fields left
\* out or emptied.
TvlInputs == {5000, 5}

ChangeInputs == {NoChange, <<-400, 10>>}

HistoryInputs ==
    {<<>>, <<TVLDataPoint(-(2 * Day), 4), TVLDataPoint(-Day, 5), TVLDataPoint(0, 8)>>}

ChainInputs ==
    {[chains |-> <<"Ethereum">>, chain_tvls |-> <<>>],
     [chains |-> <<"Ethereum", "Arbitrum", "Polygon", "Optimism", "BSC">>,
      chain_tvls |-> <<ChainBreakdown("Ethereum", 60), ChainBreakdown("Arbitrum", 20),
                       ChainBreakdown("Polygon", 10), ChainBreakdown("Optimism", 6),
                       ChainBreakdown("BSC", 4)>>]}

AuditInputs ==
    {[audits |-> <<>>, audit_links |-> <<>>],
     [audits |-> <<>>, audit_links |-> <<"https://audit1.com", "https://audit2.com">>]}

OracleInputs == {<<>>, <<"Chainlink">>, <<"Custom">>}

AssessedIncidentLists ==
    {<<>>, <<Incident(45, "high", FALSE, FALSE), Incident(180, "medium", TRUE, FALSE)>>,
     <<Incident(400, "critical", TRUE, TRUE)>>}

ProtocolInputs ==
    {ProtocolFields(tvl, change, history, c.chains, c.chain_tvls, a.audits,
                    a.audit_links, oracles, incidents) :
        tvl \in TvlInputs, change \in ChangeInputs, history \in HistoryInputs,
        c \in ChainInputs, a \in AuditInputs, oracles \in OracleInputs,
        incidents \in AssessedIncidentLists}

assess_protocol_call ==
    /\ protocolIn.given
    /\ assessment = NoAssessment
    /\ assessment' = assess_protocol(protocolIn, now, sumImpl)
    /\ UNCHANGED <<cacheVars, scraperVars, protoVars, flowVars, factorsIn, riskScore, sumImpl,
                   scoreIn, scoreOut, protocolIn, factorOut>>

InitAssess ==
    /\ client = "none"
    /\ CacheInit
    /\ ScraperIdle
    /\ site = NoSite
    /\ pdata = NoData
    /\ FlowIdle
    /\ factorsIn = <<>>
    /\ riskScore = NoScore
    /\ sumImpl \in SumImpls
    /\ scoreIn = <<>>
    /\ scoreOut = <<>>
    /\ protocolIn \in ProtocolInputs
    /\ factorOut = NoFactor
    /\ assessment = NoAssessment

NextAssess == assess_protocol_call

SpecAssess == InitAssess /\ [][NextAssess]_vars

C18_Names ==
    <<"TVL Risk", "Chain Concentration", "Audit Status", "Oracle Risk", "Incident History">>

\* The fixed weights, in hundredths.
C18_Weights == <<<<30, 100>>, <<25, 100>>, <<20, 100>>, <<10, 100>>, <<15, 100>>>>

\* C18: for every protocol, with or without incidents, chain breakdown,
\* audits or oracles, assess_protocol aggregates exactly the five factors TVL
\* Risk, Chain Concentration, Audit Status, Oracle Risk and Incident History,
\* with weights that do not depend on the input and sum to 1.0.
C18_FiveFixedWeights ==
    assessment.kind # "none" =>
       /\ assessment.kind = "value"
       /\ Len(assessment.factors) = 5
       /\ assessment.score.factors = assessment.factors
       /\ \A i \in 1..5 :
             /\ assessment.factors[i].name = C18_Names[i]
             /\ assessment.factors[i].weight = Literal(C18_Weights[i])
       /\ SumHundredths(C18_Weights) = 100
       /\ total_weight(assessment.factors, sumImpl) = FInt(1)

-----------------------------------------------------------------------------
(* The token of the normalizer, for the properties below. *)

C24_TokenChars == Range(LowerCase) \cup Digits \cup {"-"}

C24_Charset == \A i \in DOMAIN token : token[i] \in C24_TokenChars

C24_Hyphens ==
    /\ token # <<>> => token[1] # "-" /\ token[Len(token)] # "-"
    /\ \A i \in 1..(Len(token) - 1) : ~(token[i] = "-" /\ token[i + 1] = "-")
    /\ \A i \in DOMAIN token : ~IsSpace(token[i])

\* A name whose lower-case form ends with two qualifiers keeps the first one.
C24_OneQualifier ==
    nameIn # NoName =>
       LET l == lower(nameIn)
           q == QualifierAt(l)
           before == SubSeq(l, 1, Len(l) - q)
           sp == TrailingSpaces(before)
           rest == SubSeq(before, 1, Len(before) - sp)
       IN  (q > 0 /\ sp > 0 /\ QualifierAt(rest) > 0) => QualifierAt(token) > 0

\* C24: for every input string the token of _normalize_protocol_name holds
\* only lowercase letters, digits and hyphens (the underscore is stripped like
\* every other character), has no leading or trailing hyphen, no two hyphens
\* in a row and no white space, and at most one trailing qualifier is removed.
C24_TokenShape ==
    token # NotRun => C24_Charset /\ C24_Hyphens /\ C24_OneQualifier

\* C30: _normalize_protocol_name is idempotent: the token of every name is
\* its own token, normalize(normalize(name)) = normalize(name).
C30_Idempotent ==
    token # NotRun => normalize_protocol_name(token) = token

\* A name with two qualifiers has been normalized: its token differs from the
\* name and still ends with a qualifier.
C30_Witness ==
    /\ token # NotRun
    /\ nameIn = T_a_V1_V1
    /\ token # nameIn
    /\ QualifierAt(token) > 0

-----------------------------------------------------------------------------
(* The assessors of value locked, of chains and of audits, each on its own:
   a protocol is drawn and one assessor is applied to it. *)

\* A protocol of which only the fields of one assessor are set.
TvlCase(tvl, change, history) ==
    ProtocolFields(tvl, change, history, <<>>, <<>>, <<>>, <<>>, <<>>, <<>>)

ChainCase(chains, chain_tvls) ==
    ProtocolFields(5000, NoChange, <<>>, chains, chain_tvls, <<>>, <<>>, <<>>, <<>>)

AuditCase(audits, audit_links) ==
    ProtocolFields(5000, NoChange, <<>>, <<>>, <<>>, audits, audit_links, <<>>, <<>>)

\* The value locked in millions of USD, below and above each threshold.
TvlCaseInputs == {5, 50, 500, 5000}

\* tvl_change_30d: None, 0.0 and the percentages around the thresholds.
ChangeCaseInputs ==
    {NoChange, <<0, 1>>, <<100, 10>>, <<99, 10>>, <<-100, 10>>, <<-101, 10>>,
     <<-300, 10>>, <<-301, 10>>}

\* Histories that rise by 100 %, stay level and fall by 50 %.
HistoryCaseInputs ==
    {<<>>,
     <<TVLDataPoint(-(2 * Day), 4), TVLDataPoint(-Day, 5), TVLDataPoint(0, 8)>>,
     <<TVLDataPoint(-(2 * Day), 100), TVLDataPoint(-Day, 101), TVLDataPoint(0, 100)>>,
     <<TVLDataPoint(-(2 * Day), 8), TVLDataPoint(-Day, 5), TVLDataPoint(0, 4)>>}

TvlCases ==
    {TvlCase(tvl, change, history) :
        tvl \in TvlCaseInputs, change \in ChangeCaseInputs, history \in HistoryCaseInputs}

assess_tvl_call ==
    /\ protocolIn.given
    /\ factorOut = NoFactor
    /\ factorOut' = assess_tvl_risk(protocolIn, now)
    /\ UNCHANGED <<cacheVars, scraperVars, protoVars, flowVars, factorsIn, riskScore, sumImpl,
                   scoreIn, scoreOut, protocolIn, assessment>>


ChainNames == <<"Ethereum", "Arbitrum", "Polygon", "Optimism", "BSC">>

\* The breakdowns of a list of shares in percent, in the order of the list.
Breakdowns(shares) ==
    [i \in DOMAIN shares |-> ChainBreakdown(ChainNames[i], shares[i])]

\* Shares around the thresholds, largest first as fetch_protocol_data sorts
\* them and in the other orders a caller of the assessor can pass.
ShareInputs ==
    {<<>>, <<100>>, <<80, 20>>, <<20, 80>>, <<79, 21>>, <<21, 79>>, <<50, 50>>,
     <<51, 49>>, <<49, 51>>, <<60, 30, 10>>, <<10, 30, 60>>, <<40, 35, 25>>,
     <<60, 20, 10, 6, 4>>, <<4, 6, 10, 20, 60>>}

ChainCases ==
    {ChainCase(SubSeq(ChainNames, 1, n), Breakdowns(shares)) :
        n \in {1, 2, 3, 5}, shares \in ShareInputs}

AuditFirms == {"Certik", "OpenZeppelin", "Trail of Bits"}

AuditLinks == {"https://audit1.com", "https://audit2.com", "https://audit3.com"}

MaxAudits == 3

AuditCases ==
    {AuditCase(audits, audit_links) :
        audits \in UNION {[1..n -> AuditFirms] : n \in 0..MaxAudits},
        audit_links \in UNION {[1..n -> AuditLinks] : n \in 0..MaxAudits}}

assess_chain_call ==
    /\ protocolIn.given
    /\ factorOut = NoFactor
    /\ factorOut' = assess_chain_risk(protocolIn)
    /\ UNCHANGED <<cacheVars, scraperVars, protoVars, flowVars, factorsIn, riskScore, sumImpl,
                   scoreIn, scoreOut, protocolIn, assessment>>

assess_audit_call ==
    /\ protocolIn.given
    /\ factorOut = NoFactor
    /\ factorOut' = assess_audit_risk(protocolIn)
    /\ UNCHANGED <<cacheVars, scraperVars, protoVars, flowVars, factorsIn, riskScore, sumImpl,
                   scoreIn, scoreOut, protocolIn, assessment>>

InitFactor ==
    /\ client = "none"
    /\ CacheInit
    /\ ScraperIdle
    /\ site = NoSite
    /\ pdata = NoData
    /\ FlowIdle
    /\ factorsIn = <<>>
    /\ riskScore = NoScore
    /\ sumImpl = "left_to_right"
    /\ scoreIn = <<>>
    /\ scoreOut = <<>>
    /\ protocolIn \in TvlCases \cup ChainCases \cup AuditCases
    /\ factorOut = NoFactor
    /\ assessment = NoAssessment

NextFactor == assess_tvl_call \/ assess_chain_call \/ assess_audit_call

SpecFactor == InitFactor /\ [][NextFactor]_vars

\* The trend and its sub-score as the statement gives them.
C25_Trend ==
    IF protocolIn.tvl_change_30d # NoChange THEN Literal(protocolIn.tvl_change_30d)
    ELSE calculate_tvl_trend(protocolIn.tvl_history, now)

C25_TrendScore(trend) ==
    IF FLe(FInt(10), trend) THEN FInt(2)
    ELSE IF FLe(FInt(-10), trend) THEN FInt(4)
    ELSE IF FLe(FInt(-30), trend) THEN FInt(6)
    ELSE FInt(9)

C25_Score(size, vol, trend) ==
    FAdd(FAdd(FMul(size, FDec(4, 10)), FMul(vol, FDec(3, 10))), FMul(trend, FDec(3, 10)))

\* C25: assess_tvl_risk takes its trend from the supplied 30-day change
\* whenever one is supplied, 0 included, and from the time series only when
\* none is supplied; the trend scores 2 from +10, 4 from -10, 6 from -30 and
\* 9 below, and the factor score is 0.4 size + 0.3 volatility + 0.3 trend.
C25_SuppliedTrendFirst ==
    (factorOut.kind # "none" /\ factorOut.name = "TVL Risk") =>
       /\ factorOut.kind = "value"
       /\ factorOut.score = C25_Score(size_score(Usd(protocolIn.tvl)),
                                       vol_score(protocolIn.tvl_history),
                                       C25_TrendScore(C25_Trend))

\* The largest share of the breakdowns.
C26_TopShare ==
    CHOOSE p \in {protocolIn.chain_tvls[i].percentage : i \in DOMAIN protocolIn.chain_tvls} :
        \A i \in DOMAIN protocolIn.chain_tvls : protocolIn.chain_tvls[i].percentage <= p

C26_Base == IF C26_TopShare >= 80 THEN 70 ELSE IF C26_TopShare >= 50 THEN 50 ELSE 30

C26_Max(a, b) == IF a >= b THEN a ELSE b

\* The score of the statement, in tenths.
C26_Tenths ==
    IF Len(protocolIn.chains) >= 5 THEN C26_Max(20, C26_Base - 15)
    ELSE IF Len(protocolIn.chains) >= 3 THEN C26_Max(20, C26_Base - 5)
    ELSE C26_Base

\* C26: with breakdowns, assess_chain_risk scores the largest share among
\* them, whatever their order (7 from 80, 5 from 50, else 3), lowered by 1.5
\* for five venues or more and by 0.5 for three or more, never below 2.0, so
\* the score lies in [2.0, 7.0]; without breakdowns the score is 5.0.
C26_LargestShareScored ==
    (factorOut.kind # "none" /\ factorOut.name = "Chain Concentration") =>
       /\ factorOut.kind = "value"
       /\ protocolIn.chain_tvls = <<>> => factorOut.score = FInt(5)
       /\ protocolIn.chain_tvls # <<>> =>
             /\ factorOut.score = FDec(C26_Tenths, 10)
             /\ FLe(FInt(2), factorOut.score)
             /\ FLe(factorOut.score, FInt(7))

\* The count of distinct audit references of the statement.
C27_Count ==
    IF protocolIn.audit_links # <<>>
    THEN Cardinality({protocolIn.audit_links[i] : i \in DOMAIN protocolIn.audit_links})
    ELSE Cardinality({protocolIn.audits[i] : i \in DOMAIN protocolIn.audits})

\* C27: assess_audit_risk scores the count of distinct audit references, the
\* distinct links when there is a link and the distinct audit firms otherwise:
\* 2.0 from three, 4.0 from one, 8.0 for none.
C27_DistinctAuditCount ==
    (factorOut.kind # "none" /\ factorOut.name = "Audit Status") =>
       /\ factorOut.kind = "value"
       /\ factorOut.score = (IF C27_Count >= 3 THEN FInt(2)
                             ELSE IF C27_Count >= 1 THEN FInt(4)
                             ELSE FInt(8))

-----------------------------------------------------------------------------
(* assess_protocol on the two entities of the end-to-end statements, with the
   values the statements leave open. *)

\* The 30-day change: none, 0.0, +10 %, +20 % and -40 %.
OpenChanges == {NoChange, <<0, 1>>, <<100, 10>>, <<200, 10>>, <<-400, 10>>}

\* The shares of five venues, and no breakdown.
OpenShares ==
    {<<>>, <<60, 20, 10, 6, 4>>, <<85, 5, 4, 3, 3>>, <<20, 20, 20, 20, 20>>}

\* Two audits, given as links or as audit firms.
TwoAudits ==
    {[audits |-> <<>>, audit_links |-> <<"https://audit1.com", "https://audit2.com">>],
     [audits |-> <<"Certik", "OpenZeppelin">>, audit_links |-> <<>>]}

\* $5B locked, 5 venues, 2 audits, one trusted oracle, no incidents.
LowSideProtocols ==
    {ProtocolFields(5000, change, history, ChainNames, Breakdowns(shares), a.audits,
                    a.audit_links, <<"Chainlink">>, <<>>) :
        change \in OpenChanges, history \in HistoryCaseInputs, shares \in OpenShares,
        a \in TwoAudits}

\* $5M locked, a single venue, no audits, no oracle, one critical, 10-day-old,
\* unfixed incident, its date without and with a UTC offset.
HighSideProtocols ==
    {ProtocolFields(5, change, history, <<"Ethereum">>, Breakdowns(<<100>>), <<>>, <<>>,
                    <<>>, <<Incident(10, "critical", FALSE, aware)>>) :
        change \in OpenChanges, history \in HistoryCaseInputs, aware \in BOOLEAN}

InitEndToEnd ==
    /\ client = "none"
    /\ CacheInit
    /\ ScraperIdle
    /\ site = NoSite
    /\ pdata = NoData
    /\ FlowIdle
    /\ factorsIn = <<>>
    /\ riskScore = NoScore
    /\ sumImpl \in SumImpls
    /\ scoreIn = <<>>
    /\ scoreOut = <<>>
    /\ protocolIn \in LowSideProtocols \cup HighSideProtocols
    /\ factorOut = NoFactor
    /\ assessment = NoAssessment

NextEndToEnd == assess_protocol_call

SpecEndToEnd == InitEndToEnd /\ [][NextEndToEnd]_vars

\* C21: for every entity with $5B locked, 5 venues, 2 audits, one trusted
\* oracle and no incidents, whatever its venue shares, its time series and
\* its 30-day change, assess_protocol returns an overall score below 4.0.
C21_LowSideBelowFour ==
    (assessment.kind # "none" /\ protocolIn \in LowSideProtocols) =>
       /\ assessment.kind = "value"
       /\ FLt(assessment.score.overall, FInt(4))

\* C22: for every entity with $5M locked, a single venue, no audits, no
\* oracle and one critical, 10-day-old, unfixed incident, whatever its time
\* series and its 30-day change, assess_protocol returns an overall score
\* above 7.0 and the level critical.
C22_HighSideCritical ==
    (assessment.kind # "none" /\ protocolIn \in HighSideProtocols) =>
       /\ assessment.kind = "value"
       /\ FLt(FInt(7), assessment.score.overall)
       /\ assessment.score.level = "critical"

-----------------------------------------------------------------------------
\* The workflow: graph/workflow.py and the four agents.
\* A query is the sequence of its words, in lower case and without their
\* punctuation; every word of the model is alphabetic and two letters or
\* longer.  A dict is the sequence of its items in insertion order.
END == "__end__"

DictKeys(d) == [i \in DOMAIN d |-> d[i].key]

DictHas(d, k) == \E i \in DOMAIN d : d[i].key = k

DictGet(d, k) == d[CHOOSE i \in DOMAIN d : d[i].key = k].value

\* d[k] = v: a key the dict holds keeps its place.
DictSet(d, k, v) ==
    IF DictHas(d, k)
    THEN [i \in DOMAIN d |-> IF d[i].key = k THEN [key |-> k, value |-> v] ELSE d[i]]
    ELSE Append(d, [key |-> k, value |-> v])

create_initial_state(query) ==
    [query |-> query, protocol_names |-> <<>>, protocol_data |-> EmptyDict,
     risk_assessments |-> EmptyDict, report |-> NoReport, current_agent |-> "",
     next_agent |-> "supervisor", error |-> None]

route_next_agent(st) ==
    IF st.error # None /\ st.error # ""
    THEN END
    ELSE IF st.next_agent = None
    THEN END
    ELSE st.next_agent

\* The names of the list of lines 61-88 that the model's queries use, in the
\* order of the list, and the words of lines 104-120.
known_protocols == <<"aave", "compound", "uniswap">>

StopWords ==
    {"analyze", "compare", "risk", "report", "the", "and", "vs", "versus", "with",
     "for", "of", "to", "a", "an", "protocol"}

InQuery(query, word) == \E i \in DOMAIN query : query[i] = word

RECURSIVE known_found(_, _, _)
known_found(query, i, protocols) ==
    IF i > Len(known_protocols)
    THEN protocols
    ELSE known_found(query, i + 1,
                     IF /\ InQuery(query, known_protocols[i])
                        /\ ~InQuery(protocols, known_protocols[i])
                     THEN Append(protocols, known_protocols[i])
                     ELSE protocols)

RECURSIVE words_found(_, _, _)
words_found(query, i, protocols) ==
    IF i > Len(query) \/ Len(protocols) >= 5
    THEN protocols
    ELSE words_found(query, i + 1,
                     IF query[i] \notin StopWords
                     THEN Append(protocols, query[i])
                     ELSE protocols)

FirstFive(protocols) ==
    SubSeq(protocols, 1, IF Len(protocols) < 5 THEN Len(protocols) ELSE 5)

\* The protocols of SupervisorAgent.parse_query.
parse_query(query) ==
    LET known == known_found(query, 1, <<>>)
    IN  FirstFive(IF known = <<>> THEN words_found(query, 1, <<>>) ELSE known)

determine_first_agent == "data_agent"

SupervisorAgent_run(st) ==
    IF st.query = <<>>
    THEN [st EXCEPT !.error = "No query provided", !.current_agent = "supervisor",
                    !.next_agent = None]
    ELSE IF parse_query(st.query) = <<>>
    THEN [st EXCEPT !.error = "Could not identify any protocol names in the query.",
                    !.current_agent = "supervisor", !.next_agent = None]
    ELSE [st EXCEPT !.protocol_names = parse_query(st.query),
                    !.current_agent = "supervisor",
                    !.next_agent = determine_first_agent, !.error = None]

\* What DataAgent.fetch_protocol gives for a name: the entity, or the
\* exception fetch_protocol_data raised.
Fetched(name, protocol) ==
    [kind |-> "value", exc |-> "",
     data |-> [name |-> name, slug |-> name, protocol |-> protocol]]

FetchRaised(exc) ==
    [kind |-> "raise", exc |-> exc,
     data |-> [name |-> "", slug |-> "", protocol |-> NoProtocol]]

AllFailed == "DefiLlamaError: Failed to fetch all protocols"

IsDefiLlamaError(exc) == exc \in DefiLlamaErrors \cup {AllFailed}

\* Lines 44-54: the loop over the names, from the i-th on.
RECURSIVE fetch_protocols_from(_, _, _, _)
fetch_protocols_from(protocol_names, w, i, sofar) ==
    IF i > Len(protocol_names)
    THEN IF sofar.errors # <<>> /\ sofar.results = EmptyDict
         THEN [kind |-> "raise", exc |-> AllFailed, results |-> EmptyDict]
         ELSE [kind |-> "value", exc |-> "", results |-> sofar.results]
    ELSE LET got == w[protocol_names[i]]
         IN  IF got.kind = "value"
             THEN fetch_protocols_from(protocol_names, w, i + 1,
                      [sofar EXCEPT !.results = DictSet(@, got.data.slug, got.data)])
             ELSE IF got.exc \in DefiLlamaErrors
             THEN fetch_protocols_from(protocol_names, w, i + 1,
                      [sofar EXCEPT !.errors = Append(@, protocol_names[i])])
             ELSE [kind |-> "raise", exc |-> got.exc, results |-> EmptyDict]

fetch_protocols(protocol_names, w) ==
    fetch_protocols_from(protocol_names, w, 1, [results |-> EmptyDict, errors |-> <<>>])

\* An agent's run(): the state it returns, or the exception that leaves it.
Ran(st) == [kind |-> "value", exc |-> "", state |-> st]

Left(exc, st) == [kind |-> "raise", exc |-> exc, state |-> st]

DataAgent_run(st, w) ==
    IF st.protocol_names = <<>>
    THEN Ran([st EXCEPT !.error = "No protocols specified for data fetching",
                             !.current_agent = "data_agent", !.next_agent = None])
    ELSE LET fetched == fetch_protocols(st.protocol_names, w)
         IN  IF fetched.kind = "value"
             THEN Ran([st EXCEPT !.protocol_data = fetched.results,
                                      !.current_agent = "data_agent",
                                      !.next_agent = "risk_agent", !.error = None])
             ELSE IF IsDefiLlamaError(fetched.exc)
             THEN Ran([st EXCEPT !.error = fetched.exc,
                                      !.current_agent = "data_agent",
                                      !.next_agent = None])
             ELSE Left(fetched.exc, st)

\* Line 48: every entity of the dict assessed, in the order of the dict.
RECURSIVE assess_protocols_from(_, _, _, _)
assess_protocols_from(protocols, t, impl, i) ==
    IF i > Len(protocols)
    THEN <<>>
    ELSE <<[key |-> protocols[i].key,
            value |-> assess_protocol(protocols[i].value.protocol, t, impl)]>>
           \o assess_protocols_from(protocols, t, impl, i + 1)

assess_protocols(protocols, t, impl) == assess_protocols_from(protocols, t, impl, 1)

\* Lines 62-101 with the assessments made: an assessment that raised is
\* caught at line 95, whichever entity it was.
risk_agent_returns(st, assessments) ==
    IF \A i \in DOMAIN assessments : assessments[i].value.kind = "value"
    THEN Ran([st EXCEPT !.risk_assessments = assessments,
                        !.current_agent = "risk_agent",
                        !.next_agent = "report_agent", !.error = None])
    ELSE Ran([st EXCEPT !.error = "Risk analysis failed",
                        !.current_agent = "risk_agent", !.next_agent = None])

RiskAgent_run(st, t, impl) ==
    IF st.protocol_data = EmptyDict
    THEN Ran([st EXCEPT !.error = "No protocol data available for risk analysis",
                        !.current_agent = "risk_agent", !.next_agent = None])
    ELSE CHOOSE ran \in {risk_agent_returns(st, assessments) :
                            assessments \in {assess_protocols(st.protocol_data, t, impl)}} :
             TRUE

RiskReport(protocol, assessed) ==
    [type |-> "RiskReport", protocols |-> <<protocol>>, assessments |-> <<assessed>>]

ComparisonReport(protocols, assessments) ==
    [type |-> "ComparisonReport", protocols |-> protocols, assessments |-> assessments]

comparison_for_any_count(protocol_data, risk_assessments) ==
    ComparisonReport(
        [i \in DOMAIN protocol_data |-> protocol_data[i].value],
        [i \in DOMAIN protocol_data |->
            DictGet(risk_assessments, protocol_data[i].value.slug)])

\* Lines 302-318: the report for the entities of protocol_data.
generated_report(protocol_data, risk_assessments) ==
    IF Len(protocol_data) = 1
    THEN RiskReport(protocol_data[1].value,
                    DictGet(risk_assessments, protocol_data[1].key))
    ELSE ComparisonReport(
             [i \in DOMAIN protocol_data |-> protocol_data[i].value],
             [i \in DOMAIN protocol_data |->
                 DictGet(risk_assessments, protocol_data[i].value.slug)])

ReportAgent_run(st) ==
    IF st.protocol_data = EmptyDict \/ st.risk_assessments = EmptyDict
    THEN Ran([st EXCEPT !.error = "Missing data or assessments for report generation",
                             !.current_agent = "report_agent", !.next_agent = None])
    ELSE IF \A i \in DOMAIN st.protocol_data :
                DictHas(st.risk_assessments, st.protocol_data[i].value.slug)
    THEN Ran([st EXCEPT !.report = generated_report(st.protocol_data,
                                                         st.risk_assessments),
                             !.current_agent = "report_agent",
                             !.next_agent = None, !.error = None])
    ELSE Ran([st EXCEPT !.error = "Report generation failed",
                             !.current_agent = "report_agent", !.next_agent = None])

\* A node of the graph run: the agent's run() called with the state, then
\* the edge out of the node taken.  An exception that leaves run() leaves
\* the graph's ainvoke too, and the run has no final state.
node_run(agent, ran, edge) ==
    /\ node = agent
    /\ executed' = Append(executed, agent)
    /\ state' = ran.state
    /\ node' = IF ran.kind = "raise" THEN ran.exc ELSE edge
    /\ UNCHANGED <<cacheVars, scraperVars, protoVars, riskVars, world>>

supervisor ==
    \E ran \in {Ran(SupervisorAgent_run(state))} :
        node_run("supervisor", ran, route_next_agent(ran.state))

data_agent ==
    \E ran \in {DataAgent_run(state, world)} :
        node_run("data_agent", ran, route_next_agent(ran.state))

risk_agent ==
    \E ran \in {RiskAgent_run(state, now, sumImpl)} :
        node_run("risk_agent", ran, route_next_agent(ran.state))

\* Line 119: the edge out of report_agent is fixed.
report_agent ==
    \E ran \in {ReportAgent_run(state)} : node_run("report_agent", ran, END)

\* The queries of the runs: none, one without a name, and one, two and
\* three names, known ones and others.
WorkflowQueries ==
    {<<>>, <<"analyze", "the", "risk">>, <<"analyze", "aave">>, <<"analyze", "cream">>,
     <<"compare", "cream", "to", "aave">>, <<"compare", "uniswap", "and", "aave">>,
     <<"compare", "cream", "with", "badger">>,
     <<"compare", "aave", "compound", "and", "uniswap">>}

\* The entity of the tests, and the same with an incident whose date has a
\* UTC offset.
SoundProtocol ==
    ProtocolFields(5000, NoChange, <<>>, <<"Ethereum">>, <<>>, <<>>,
                   <<"https://audit1.com", "https://audit2.com">>, <<"Chainlink">>, <<>>)

OffsetProtocol ==
    [SoundProtocol EXCEPT !.incidents = <<Incident(400, "critical", TRUE, TRUE)>>]

\* What a name's fetch can give: the entity, no such protocol, or a detail
\* document that is null.
FetchOutcomes(name) ==
    {Fetched(name, SoundProtocol), Fetched(name, OffsetProtocol),
     FetchRaised("DefiLlamaError: Protocol '{protocol_name}' not found"),
     FetchRaised("AttributeError")}

NamesOf(query) == {parse_query(query)[i] : i \in DOMAIN parse_query(query)}

Worlds(query) ==
    {w \in [NamesOf(query) -> UNION {FetchOutcomes(n) : n \in NamesOf(query)}] :
        \A n \in NamesOf(query) : w[n] \in FetchOutcomes(n)}

InitWorkflow ==
    /\ client = "none"
    /\ CacheInit
    /\ ScraperIdle
    /\ site = NoSite
    /\ pdata = NoData
    /\ factorsIn = <<>>
    /\ riskScore = NoScore
    /\ sumImpl \in SumImpls
    /\ scoreIn = <<>>
    /\ scoreOut = <<>>
    /\ protocolIn = NoProtocol
    /\ factorOut = NoFactor
    /\ assessment = NoAssessment
    /\ \E query \in WorkflowQueries :
          /\ world \in Worlds(query)
          /\ state = create_initial_state(query)
    /\ node = "supervisor"
    /\ executed = <<>>

NextWorkflow == supervisor \/ data_agent \/ risk_agent \/ report_agent

SpecWorkflow == InitWorkflow /\ [][NextWorkflow]_vars

-----------------------------------------------------------------------------
AgentOrder == <<"supervisor", "data_agent", "risk_agent", "report_agent">>

C28_Agents == {AgentOrder[i] : i \in DOMAIN AgentOrder}

C28_Stopped == state.error # None \/ state.next_agent = None

\* C28: every run started from create_initial_state executes the agents as
\* a prefix of supervisor, data_agent, risk_agent, report_agent (each at
\* most once, none skipped), runs no agent after a stage that set error or
\* next_agent = None, and ends at END after at most four agent steps: the
\* graph is always at an agent still to run or at END, never left by an
\* exception.
C28_PrefixThenEnd ==
    /\ Len(executed) <= Len(AgentOrder)
    /\ executed = SubSeq(AgentOrder, 1, Len(executed))
    /\ node \in C28_Agents \cup {END}
    /\ node \in C28_Agents =>
          /\ Len(executed) < Len(AgentOrder)
          /\ node = AgentOrder[Len(executed) + 1]
          /\ executed # <<>> => ~C28_Stopped
    /\ (executed # <<>> /\ C28_Stopped) => node = END


C29_Slugs(protocols) == [i \in DOMAIN protocols |-> protocols[i].slug]

C29_Covered ==
    /\ C29_Slugs(state.report.protocols) = DictKeys(state.protocol_data)
    /\ state.report.assessments =
          [i \in DOMAIN state.protocol_data |->
              DictGet(state.risk_assessments, state.protocol_data[i].key)]
    /\ state.report.type =
          IF Len(state.protocol_data) = 1 THEN "RiskReport" ELSE "ComparisonReport"

\* C29: in the final state of every run, report is non-null if and only if
\* error is null; a run that ends without error has passed through all four
\* agents and its report covers exactly the entities in protocol_data, a
\* RiskReport for one entity and a ComparisonReport for several; a run that
\* ends with error carries no report.
C29_ReportIffNoError ==
    node = END =>
       /\ (state.report # NoReport) <=> (state.error = None)
       /\ state.error = None =>
             /\ executed = AgentOrder
             /\ state.protocol_data # EmptyDict
             /\ C29_Covered
       /\ state.error # None => state.report = NoReport

\* A comparison of three names ended without error, one of the three not
\* fetched.
C29_Witness ==
    /\ node = END
    /\ state.error = None
    /\ Len(state.protocol_names) = 3
    /\ Len(state.protocol_data) = 2
    /\ state.report.type = "ComparisonReport"

C23_Assessed(name) ==
    /\ world[name].kind = "value"
    /\ assess_protocol(world[name].data.protocol, now, sumImpl).kind = "value"

\* C23: in a request for several entities, a failure of one entity's fetch,
\* correlation or assessment does not affect the others: when the run is
\* over, every entity whose own fetch and assessment succeed has its
\* ProtocolData and its RiskAssessment in the workflow state.
C23_EntityIsolation ==
    (node \notin C28_Agents /\ Len(state.protocol_names) > 1) =>
        \A i \in DOMAIN state.protocol_names :
            C23_Assessed(state.protocol_names[i]) =>
               /\ DictHas(state.protocol_data, world[state.protocol_names[i]].data.slug)
               /\ DictHas(state.risk_assessments, world[state.protocol_names[i]].data.slug)

====
